---- MODULE Spec2Model ----
(***************************************************************************)
(* Route construction heuristics of RouteOptimize:                         *)
(*   backend/backend_app.py    distance_first_algorithm,                   *)
(*                             time_first_algorithm,                       *)
(*                             calculate_time_penalty,                     *)
(*                             calculate_algorithm_stats                   *)
(*   backend/vrp_algorithms.py clarke_wright_savings_algorithm,            *)
(*                             sweep_algorithm, genetic_algorithm,         *)
(*                             balanced_multi_trip_algorithm               *)
(*                                                                         *)
(* Geometry.  calculate_distance is the haversine distance times 1.3.  The *)
(* model places every order on the depot's meridian: pos is the signed     *)
(* road-corrected distance in km north (+) or south (-) of the depot.  On  *)
(* a meridian the great-circle distance is additive, so                    *)
(* calculate_distance(a, b) = |pos_a - pos_b| and the depot distance of an *)
(* order is |pos|.  All positions are multiples of 10 km, so that travel   *)
(* times at 40 km/h are whole minutes (15 minutes per 10 km).              *)
(* Weights and capacities are whole kilograms.                             *)
(***************************************************************************)
EXTENDS Integers, Sequences, FiniteSets, TLC

VARIABLES
    alg,       \* which algorithm this run executes
    orders,    \* the orders argument (a sequence of order records)
    vehicles,  \* the vehicles argument (a sequence of vehicle records)
    pc,        \* position of the run: "run", "done", "raised", or
               \* "reported" once the caller has computed the statistics;
               \* optimize_routes goes from "request" to "responded"
    routes,    \* the routes list under construction (all_routes in multi-trip)
    assigned,  \* the assigned / assigned_orders set
    loc,       \* the other local variables of the running algorithm
    result     \* the returned pair (with the statistics once reported), or
               \* the exception raised

vars == <<alg, orders, vehicles, pc, routes, assigned, loc, result>>

(* ------------------------------ bounds -------------------------------- *)

MaxOrders == 3
MaxVehicles == 2
\* genetic_algorithm(generations=50, population_size=30), scaled down; the
\* tournament needs a population of at least t_size = 3
Generations == 2
PopulationSize == 3

(* --------------------------- input domains ---------------------------- *)

\* Python's None where a route is expected
NoRoute == [none |-> TRUE]

\* the result slot before the algorithm has returned
NoResult == [none |-> TRUE]

\* an order without a 'windowEnd' key
NoWindow == [present |-> FALSE, parts |-> <<>>]

Weights == {3, 8}
SmallCapacity == 5
LargeCapacity == 10
Positions == {-30, 10, 60}
NearPositions == {-30, 10}
FuelTypes == {"electric", "diesel"}
Priorities == {"express", "standard"}
\* no deadline, or "08:30"
Windows == {NoWindow, [present |-> TRUE, parts |-> <<8, 30>>]}

Abs(x) == IF x < 0 THEN -x ELSE x

\* str.lower() on the vehicle type / fuel type strings of the input domain
Lower(s) ==
    CASE s = "Van" -> "van"
      [] s = "Bike" -> "bike"
      [] s = "Electric" -> "electric"
      [] OTHER -> s

\* calculate_distance between two points of the depot's meridian
calculate_distance(p, q) == Abs(p - q)

DEPOT == 0

\* calculate_distance(DEPOT_LAT, DEPOT_LNG, order['lat'], order['lng'])
DepotDist(o) == calculate_distance(DEPOT, o.pos)

(* ----------------------------- helpers -------------------------------- *)

RECURSIVE SumWeights(_)
\* sum(o['weight'] for o in stops)
SumWeights(stops) ==
    IF stops = <<>> THEN 0
    ELSE stops[1].weight + SumWeights(Tail(stops))

RECURSIVE SeqSum(_)
\* sum(...) over a sequence of numbers
SeqSum(s) == IF s = <<>> THEN 0 ELSE s[1] + SeqSum(Tail(s))

\* insert the keyed item x into the sorted sequence s after every item whose
\* key is <= x.key (what a stable sort does with equal keys)
RECURSIVE InsertStable(_, _)
InsertStable(x, s) ==
    IF s = <<>> THEN <<x>>
    ELSE IF s[1].key <= x.key THEN <<s[1]>> \o InsertStable(x, Tail(s))
    ELSE <<x>> \o s

\* Python's sorted() on a sequence of [key, val] items: stable, ascending
RECURSIVE SortedByKey(_)
SortedByKey(s) ==
    IF s = <<>> THEN <<>>
    ELSE InsertStable(s[Len(s)], SortedByKey(SubSeq(s, 1, Len(s) - 1)))

Vals(s) == [i \in 1..Len(s) |-> s[i].val]

\* key=lambda x: (0 if fuelType.lower() == 'electric' else 1, -maxCapacity),
\* as one integer (capacities stay below 1000)
VehicleSortKey(v) ==
    (IF Lower(v.fuelType) = "electric" THEN 0 ELSE 1) * 1000 - v.maxCapacity

SeqsUpTo(S, n) == UNION {[1..k -> S] : k \in 1..n}

\* identifiers are the positions in the input list, hence pairwise distinct
WithIds(s) == [i \in 1..Len(s) |-> [id |-> i] @@ s[i]]


(* --------------------------- program constants ------------------------ *)

MAX_SHIFT_HOURS == 10
AVG_SPEED_KMH == 40
SERVICE_TIME_MINUTES == 5
BIKE_RANGE_KM == 15
VAN_RANGE_KM == 50
SHIFT_START == 480
TOURNAMENT_SIZE == 3
MAX_TIME_DEVIATION_MINUTES == 60

(* ------------------------- time windows -------------------------------- *)

\* A clock string is modelled by what split(':') makes of it: the sequence of
\* its parts, each the integer it spells or NaN for a part int() rejects.
\* present is FALSE for an order that has no 'windowEnd' key at all.
NaN == 0 - 1

ClockStr(parts) == [present |-> TRUE, parts |-> parts]

NoMinutes == 0 - 1

\* time_to_minutes that reads a string without ':' as whole hours
time_to_minutes_HoursOnly(time_str) ==
    IF time_str.parts = <<>> THEN NoMinutes
    ELSE IF time_str.parts[1] = NaN THEN NoMinutes
    ELSE IF Len(time_str.parts) < 2 THEN time_str.parts[1] * 60
    ELSE IF time_str.parts[2] = NaN THEN NoMinutes
    ELSE time_str.parts[1] * 60 + time_str.parts[2]

\* time_to_minutes: None (NoMinutes) for an empty string, for fewer than two
\* parts (IndexError) and for a part that is no integer (ValueError)
time_to_minutes(time_str) ==
    IF time_str.parts = <<>> THEN NoMinutes
    ELSE IF Len(time_str.parts) < 2 THEN NoMinutes
    ELSE IF time_str.parts[1] = NaN \/ time_str.parts[2] = NaN THEN NoMinutes
    ELSE time_str.parts[1] * 60 + time_str.parts[2]

\* order.get('windowEnd', default)
WindowEndOr(order, default) ==
    IF order.windowEnd.present THEN order.windowEnd ELSE default

\* calculate_time_penalty without the band of tolerance
calculate_time_penalty_Strict(arrival_time, window_end, tolerance_minutes) ==
    IF window_end = NoMinutes \/ arrival_time <= window_end
    THEN [on_time |-> TRUE, lateness |-> 0]
    ELSE [on_time |-> FALSE, lateness |-> arrival_time - window_end]

\* calculate_time_penalty(arrival_time, window_end, tolerance_minutes)
calculate_time_penalty(arrival_time, window_end, tolerance_minutes) ==
    IF window_end = NoMinutes THEN [on_time |-> TRUE, lateness |-> 0]
    ELSE IF arrival_time <= window_end + tolerance_minutes
    THEN IF arrival_time <= window_end
         THEN [on_time |-> TRUE, lateness |-> 0]
         ELSE [on_time |-> TRUE, lateness |-> arrival_time - window_end]
    ELSE [on_time |-> FALSE, lateness |-> arrival_time - window_end]

\* (dist / avg_speed_kmh) * 60, exact for the even distances of the model
TravelMinutes(dist) == (dist * 60) \div AVG_SPEED_KMH

(* ------------------- injected helpers (two_opt_improve) ---------------- *)

\* total travel distance of a visiting order: depot -> stops -> depot
RECURSIVE LegsFrom(_, _)
LegsFrom(p, stops) ==
    IF stops = <<>> THEN calculate_distance(p, DEPOT)
    ELSE calculate_distance(p, stops[1].pos) + LegsFrom(stops[1].pos, Tail(stops))

RouteDistance(stops) == LegsFrom(DEPOT, stops)

\* stops with the segment i..j reversed
Reversed(stops, i, j) ==
    [n \in 1..Len(stops) |-> IF n >= i /\ n <= j THEN stops[i + j - n] ELSE stops[n]]

ImprovingReversals(stops) ==
    {ij \in (1..Len(stops)) \X (1..Len(stops)) :
        /\ ij[1] < ij[2]
        /\ RouteDistance(Reversed(stops, ij[1], ij[2])) < RouteDistance(stops)}

\* 2-opt local search: apply improving segment reversals until none is left
RECURSIVE two_opt_improve(_)
two_opt_improve(stops) ==
    IF ImprovingReversals(stops) = {} THEN stops
    ELSE LET ij == CHOOSE x \in ImprovingReversals(stops) :
                      \A y \in ImprovingReversals(stops) :
                          x[1] < y[1] \/ (x[1] = y[1] /\ x[2] <= y[2])
         IN two_opt_improve(Reversed(stops, ij[1], ij[2]))

(* --------------- injected helpers (calculate_route_metrics) ------------ *)

\* the walk of calculate_route_metrics over the stops: the clock starts at
\* the shift start, each leg is driven at AVG_SPEED_KMH, each stop takes
\* SERVICE_TIME_MINUTES; acc is [on_time, late, lateness]
RECURSIVE MetricsWalk(_, _, _, _)
MetricsWalk(p, clock, stops, acc) ==
    IF stops = <<>> THEN acc
    ELSE LET arrival == clock + TravelMinutes(calculate_distance(p, stops[1].pos))
                        + SERVICE_TIME_MINUTES
             pen == calculate_time_penalty(arrival,
                        time_to_minutes(WindowEndOr(stops[1], ClockStr(<<>>))),
                        MAX_TIME_DEVIATION_MINUTES)
         IN MetricsWalk(stops[1].pos, arrival, Tail(stops),
                [on_time |-> IF pen.on_time THEN acc.on_time + 1 ELSE acc.on_time,
                 late |-> IF pen.on_time THEN acc.late ELSE acc.late + 1,
                 lateness |-> acc.lateness + pen.lateness])

\* calculate_route_metrics(route, DEPOT_LAT, DEPOT_LNG): the route with its
\* distance (closing leg included), on-time and late counts and lateness
calculate_route_metrics(route) ==
    LET acc == MetricsWalk(DEPOT, SHIFT_START, route.orders,
                           [on_time |-> 0, late |-> 0, lateness |-> 0])
    IN [totalDistance |-> RouteDistance(route.orders),
        onTimeDeliveries |-> acc.on_time,
        lateDeliveries |-> acc.late,
        totalLateness |-> acc.lateness] @@ route

(* ============================ SWEEP =================================== *)

\* math.atan2(dy, dx) with dx = 0, in units of pi/2: south of the depot -1,
\* at the depot 0, north of it +1
Angle(o) == IF o.pos < 0 THEN -1 ELSE IF o.pos = 0 THEN 0 ELSE 1

\* orders_with_angles without the sort
OrdersByAngle_Unsorted(os) == os

\* orders_with_angles after orders_with_angles.sort(key=angle)
OrdersByAngle(os) ==
    Vals(SortedByKey([i \in 1..Len(os) |-> [key |-> Angle(os[i]), val |-> os[i]]]))

\* sorted(vehicles, key=(electric first, -maxCapacity))
SortedVehicles(vs) ==
    Vals(SortedByKey([i \in 1..Len(vs) |->
                         [key |-> VehicleSortKey(vs[i]), val |-> vs[i]]]))

NewRoute(v, stops) ==
    [vehicle |-> v, orders |-> stops, totalWeight |-> SumWeights(stops)]

\* can_add of sweep_algorithm
SweepCanAdd(route, order) ==
    /\ route.totalWeight + order.weight <= route.vehicle.maxCapacity
    /\ (Lower(route.vehicle.type) # "bike" \/ DepotDist(order) <= BIKE_RANGE_KM)
    /\ Len(route.orders) * 20 < MAX_SHIFT_HOURS * 60

\* the route opened on the next vehicle when the current one is closed
SweepOpenWith(v, order) ==
    [vehicle |-> v, orders |-> <<order>>, totalWeight |-> order.weight]

SweepLoc(os, vs) ==
    [orders_with_angles |-> OrdersByAngle(os),
     sorted_vehicles |-> SortedVehicles(vs),
     current_route |-> NoRoute,
     vehicle_idx |-> 0,
     k |-> 1]

\* the loop's break: no current route and no vehicle left
SweepBreak ==
    /\ alg = "sweep" /\ pc = "run"
    /\ loc.k <= Len(loc.orders_with_angles)
    /\ loc.current_route = NoRoute
    /\ loc.vehicle_idx >= Len(loc.sorted_vehicles)
    /\ loc' = [loc EXCEPT !.k = Len(loc.orders_with_angles) + 1]
    /\ UNCHANGED <<alg, orders, vehicles, pc, routes, assigned, result>>

\* one iteration of "for order in orders_with_angles"
SweepStep ==
    /\ alg = "sweep" /\ pc = "run"
    /\ loc.k <= Len(loc.orders_with_angles)
    /\ ~(loc.current_route = NoRoute /\ loc.vehicle_idx >= Len(loc.sorted_vehicles))
    /\ LET order == loc.orders_with_angles[loc.k]
           sv == loc.sorted_vehicles
           opened == loc.current_route = NoRoute
           cur == IF opened THEN NewRoute(sv[loc.vehicle_idx + 1], <<>>)
                  ELSE loc.current_route
           vidx == IF opened THEN loc.vehicle_idx + 1 ELSE loc.vehicle_idx
       IN IF SweepCanAdd(cur, order)
          THEN /\ loc' = [loc EXCEPT
                            !.current_route =
                                [cur EXCEPT !.orders = Append(@, order),
                                            !.totalWeight = @ + order.weight],
                            !.vehicle_idx = vidx,
                            !.k = @ + 1]
               /\ assigned' = assigned \cup {order.id}
               /\ routes' = routes
          ELSE /\ routes' = IF cur.orders # <<>> THEN Append(routes, cur) ELSE routes
               /\ IF vidx < Len(sv)
                  THEN /\ loc' = [loc EXCEPT
                                    !.current_route = SweepOpenWith(sv[vidx + 1], order),
                                    !.vehicle_idx = vidx + 1,
                                    !.k = @ + 1]
                       /\ assigned' = assigned \cup {order.id}
                  ELSE /\ loc' = [loc EXCEPT !.current_route = NoRoute,
                                             !.vehicle_idx = vidx,
                                             !.k = @ + 1]
                       /\ assigned' = assigned
    /\ UNCHANGED <<alg, orders, vehicles, pc, result>>

\* after the loop: flush the current route and return (routes, len(assigned))
SweepReturn ==
    /\ alg = "sweep" /\ pc = "run"
    /\ loc.k > Len(loc.orders_with_angles)
    /\ routes' = LET rs == IF loc.current_route # NoRoute
                                /\ loc.current_route.orders # <<>>
                             THEN Append(routes, loc.current_route)
                             ELSE routes
                 IN [n \in DOMAIN rs |-> calculate_route_metrics(rs[n])]
    /\ result' = [routes |-> routes', assigned_count |-> Cardinality(assigned)]
    /\ pc' = "done"
    /\ UNCHANGED <<alg, orders, vehicles, assigned, loc>>

(* ====================== BALANCED MULTI-TRIP =========================== *)

\* priority_map.get(x.get('priority', 'standard'), 1) of balanced_multi_trip
BMTPriority(o) ==
    CASE o.priority = "express" -> 3
      [] o.priority = "urgent" -> 2
      [] OTHER -> 1

\* key=lambda x: (-priority, -weight) as one integer (weights stay below 1000)
BMTOrderKey(o) == (0 - BMTPriority(o)) * 1000 - o.weight

BMTSortedOrders(os) ==
    Vals(SortedByKey([i \in 1..Len(os) |-> [key |-> BMTOrderKey(os[i]), val |-> os[i]]]))

\* BMTFeasible counting the way out only
BMTFeasible_OneWay(v, order, vtime) ==
    /\ ~(Lower(v.type) = "bike" /\ DepotDist(order) > BIKE_RANGE_KM)
    /\ vtime[v.id] + TravelMinutes(DepotDist(order)) <= MAX_SHIFT_HOURS * 60

\* the reachability and shift-time checks of the vehicle loop
BMTFeasible(v, order, vtime) ==
    /\ ~(Lower(v.type) = "bike" /\ DepotDist(order) > BIKE_RANGE_KM)
    /\ vtime[v.id] + TravelMinutes(DepotDist(order)) * 2 <= MAX_SHIFT_HOURS * 60

\* score = current_util (+ 0.5 if a new trip is needed), as the fraction num/den
BMTScore(v, order, vload) ==
    [num |-> 2 * vload[v.id]
               + (IF vload[v.id] + order.weight > v.maxCapacity
                  THEN v.maxCapacity ELSE 0),
     den |-> 2 * v.maxCapacity]

ScoreLess(a, b) == a.num * b.den < b.num * a.den

\* the vehicle loop: best is [found, vehicle, score]; "score < best_score"
RECURSIVE BMTBest(_, _, _, _, _)
BMTBest(sv, order, vload, vtime, best) ==
    IF sv = <<>> THEN best
    ELSE LET v == sv[1]
             sc == BMTScore(v, order, vload)
             better == BMTFeasible(v, order, vtime)
                       /\ (~best.found \/ ScoreLess(sc, best.score))
         IN BMTBest(Tail(sv), order, vload, vtime,
                    IF better THEN [found |-> TRUE, vehicle |-> v, score |-> sc]
                    ELSE best)

NoBest == [found |-> FALSE]

\* len([r for r in all_routes if r['vehicle']['id'] == v_id]) + 1
\* TripNumber that numbers every trip 1
TripNumber_AlwaysFirst(all_routes, v_id) == 1

TripNumber(all_routes, v_id) ==
    Cardinality({i \in DOMAIN all_routes : all_routes[i].vehicle.id = v_id}) + 1

\* the route dict built when a trip is closed or flushed
BMTRoute(v, trip, load, all_routes) ==
    calculate_route_metrics(
        [vehicle |-> v,
         orders |-> two_opt_improve(trip),
         totalWeight |-> load,
         tripNumber |-> TripNumber(all_routes, v.id)])

BMTLoc(os, vs) ==
    [sorted_orders |-> BMTSortedOrders(os),
     sorted_vehicles |-> SortedVehicles(vs),
     vehicle_trips |-> [i \in 1..Len(vs) |-> <<>>],
     vehicle_load |-> [i \in 1..Len(vs) |-> 0],
     vehicle_time |-> [i \in 1..Len(vs) |-> 0],
     k |-> 1]

\* one iteration of "for order in sorted_orders"
BMTStep ==
    /\ alg = "bmt" /\ pc = "run"
    /\ loc.k <= Len(loc.sorted_orders)
    /\ LET order == loc.sorted_orders[loc.k]
           best == BMTBest(loc.sorted_vehicles, order, loc.vehicle_load,
                           loc.vehicle_time, NoBest)
       IN IF ~best.found
          THEN /\ loc' = [loc EXCEPT !.k = @ + 1]
               /\ UNCHANGED <<routes, assigned>>
          ELSE LET v == best.vehicle
                   newtrip == loc.vehicle_load[v.id] + order.weight > v.maxCapacity
               IN /\ routes' =
                        IF newtrip /\ loc.vehicle_trips[v.id] # <<>>
                        THEN Append(routes, BMTRoute(v, loc.vehicle_trips[v.id],
                                                     loc.vehicle_load[v.id], routes))
                        ELSE routes
                  /\ loc' = [loc EXCEPT
                               !.vehicle_trips[v.id] =
                                   IF newtrip THEN <<order>> ELSE Append(@, order),
                               !.vehicle_load[v.id] =
                                   IF newtrip THEN order.weight ELSE @ + order.weight,
                               !.vehicle_time[v.id] =
                                   @ + TravelMinutes(DepotDist(order)),
                               !.k = @ + 1]
                  /\ assigned' = assigned \cup {order.id}
    /\ UNCHANGED <<alg, orders, vehicles, pc, result>>

\* "for v_id, trip_orders in vehicle_trips.items()": flush the open trips, in
\* the insertion order of the dict, which is the order of sorted_vehicles
RECURSIVE BMTFlush(_, _, _, _)
BMTFlush(sv, trips, vload, all_routes) ==
    IF sv = <<>> THEN all_routes
    ELSE BMTFlush(Tail(sv), trips, vload,
                  IF trips[sv[1].id] # <<>>
                  THEN Append(all_routes,
                              BMTRoute(sv[1], trips[sv[1].id], vload[sv[1].id],
                                       all_routes))
                  ELSE all_routes)

BMTReturn ==
    /\ alg = "bmt" /\ pc = "run"
    /\ loc.k > Len(loc.sorted_orders)
    /\ routes' = BMTFlush(loc.sorted_vehicles, loc.vehicle_trips,
                          loc.vehicle_load, routes)
    /\ result' = [routes |-> routes', assigned_count |-> Cardinality(assigned)]
    /\ pc' = "done"
    /\ UNCHANGED <<alg, orders, vehicles, assigned, loc>>

(* ====================== CLARKE-WRIGHT SAVINGS ========================= *)

\* saving = d_0i + d_0j - d_ij, plus the bonus for the same priority
Saving(oi, oj) ==
    DepotDist(oi) + DepotDist(oj) - calculate_distance(oi.pos, oj.pos)
    + (IF oi.priority = oj.priority THEN 1 ELSE 0)

\* the pairs (i, j), i < j, in the order the two nested loops append them
RECURSIVE PairsFrom(_, _, _)
PairsFrom(i, j, n) ==
    IF i >= n THEN <<>>
    ELSE IF j > n THEN PairsFrom(i + 1, i + 2, n)
    ELSE <<[i |-> i, j |-> j]>> \o PairsFrom(i, j + 1, n)

\* savings after savings.sort(key=saving, reverse=True): descending, and a
\* reverse sort keeps the original order of equal elements
SortedSavings(os) ==
    LET ps == PairsFrom(1, 2, Len(os))
    IN Vals(SortedByKey([n \in 1..Len(ps) |->
                [key |-> 0 - Saving(os[ps[n].i], os[ps[n].j]), val |-> ps[n]]]))

\* sorted(vehicles, key=lambda v: -v['maxCapacity'])
ByCapacity(vs) ==
    Vals(SortedByKey([i \in 1..Len(vs) |->
                         [key |-> 0 - vs[i].maxCapacity, val |-> vs[i]]]))

RECURSIVE MaxDepotDist(_)
MaxDepotDist(os) ==
    IF Len(os) = 1 THEN DepotDist(os[1])
    ELSE LET m == MaxDepotDist(Tail(os))
         IN IF DepotDist(os[1]) > m THEN DepotDist(os[1]) ELSE m

\* CWVehicleFits without the bike's range test
CWVehicleFits_AnyDistance(v, orders_to_assign, used_ids) ==
    /\ v.id \notin used_ids
    /\ SumWeights(orders_to_assign) <= v.maxCapacity

\* the test find_vehicle applies to one vehicle
CWVehicleFits(v, orders_to_assign, used_ids) ==
    /\ v.id \notin used_ids
    /\ SumWeights(orders_to_assign) <= v.maxCapacity
    /\ ~(Lower(v.type) = "bike" /\ MaxDepotDist(orders_to_assign) > BIKE_RANGE_KM)

\* find_vehicle: the first fitting vehicle by descending capacity, as a
\* sequence of at most one vehicle (empty: None)
RECURSIVE FirstFitting(_, _, _)
FirstFitting(vs, orders_to_assign, used_ids) ==
    IF vs = <<>> THEN <<>>
    ELSE IF CWVehicleFits(vs[1], orders_to_assign, used_ids) THEN <<vs[1]>>
    ELSE FirstFitting(Tail(vs), orders_to_assign, used_ids)

\* find_vehicle scanning the vehicles in the order given
find_vehicle_Unsorted(vs, orders_to_assign, used_ids) ==
    FirstFitting(vs, orders_to_assign, used_ids)

find_vehicle(vs, orders_to_assign, used_ids) ==
    FirstFitting(ByCapacity(vs), orders_to_assign, used_ids)

\* can_add of clarke_wright_savings_algorithm
can_add(route, order) ==
    /\ route.totalWeight + order.weight <= route.vehicle.maxCapacity
    /\ ~(Lower(route.vehicle.type) = "bike" /\ DepotDist(order) > BIKE_RANGE_KM)

UsedIds(rs) == {rs[n].vehicle.id : n \in DOMAIN rs}

HasOrder(route, oid) == \E n \in DOMAIN route.orders : route.orders[n].id = oid

\* next((r for r in routes if order['id'] in ...), None): index of the first
\* route holding the order, 0 for None
RouteOf(rs, oid) ==
    IF \E n \in DOMAIN rs : HasOrder(rs[n], oid)
    THEN CHOOSE n \in DOMAIN rs :
            HasOrder(rs[n], oid) /\ \A m \in 1..(n - 1) : ~HasOrder(rs[m], oid)
    ELSE 0

\* route['orders'].append(order); route['totalWeight'] += order['weight']
AppendOrder(rs, n, order) ==
    [rs EXCEPT ![n].orders = Append(@, order), ![n].totalWeight = @ + order.weight]

\* routes.append({'vehicle': ..., 'orders': [...], 'totalWeight': ...})
CWNewRoute(v, stops) ==
    [vehicle |-> v, orders |-> stops, totalWeight |-> SumWeights(stops)]

CWLoc(os) == [savings |-> SortedSavings(os), k |-> 1, i |-> 1]

\* one iteration of "for saving_pair in savings"
CWPairStep ==
    /\ alg = "cw" /\ pc = "run"
    /\ loc.k <= Len(loc.savings)
    /\ LET i == loc.savings[loc.k].i
           j == loc.savings[loc.k].j
           order_i == orders[i]
           order_j == orders[j]
           route_i == RouteOf(routes, order_i.id)
           route_j == RouteOf(routes, order_j.id)
           vehicle == find_vehicle(vehicles, <<order_i, order_j>>, UsedIds(routes))
       IN IF i \in assigned /\ j \in assigned
          THEN UNCHANGED <<routes, assigned>>
          ELSE IF route_i = 0 /\ route_j = 0
          THEN IF vehicle # <<>>
               THEN /\ routes' = Append(routes, CWNewRoute(vehicle[1], <<order_i, order_j>>))
                    /\ assigned' = assigned \cup {i, j}
               ELSE UNCHANGED <<routes, assigned>>
          ELSE IF route_i # 0 /\ route_j = 0
          THEN IF can_add(routes[route_i], order_j)
               THEN /\ routes' = AppendOrder(routes, route_i, order_j)
                    /\ assigned' = assigned \cup {j}
               ELSE UNCHANGED <<routes, assigned>>
          ELSE IF route_j # 0 /\ route_i = 0
          THEN IF can_add(routes[route_j], order_i)
               THEN /\ routes' = AppendOrder(routes, route_j, order_i)
                    /\ assigned' = assigned \cup {i}
               ELSE UNCHANGED <<routes, assigned>>
          ELSE UNCHANGED <<routes, assigned>>
    /\ loc' = [loc EXCEPT !.k = @ + 1]
    /\ UNCHANGED <<alg, orders, vehicles, pc, result>>

\* index of the first route the order can be added to, 0 if there is none
FirstAddable(rs, order) ==
    IF \E n \in DOMAIN rs : can_add(rs[n], order)
    THEN CHOOSE n \in DOMAIN rs :
            can_add(rs[n], order) /\ \A m \in 1..(n - 1) : ~can_add(rs[m], order)
    ELSE 0

\* one iteration of "for i, order in enumerate(orders)" (assign remaining)
CWRemainStep ==
    /\ alg = "cw" /\ pc = "run"
    /\ loc.k > Len(loc.savings)
    /\ loc.i <= Len(orders)
    /\ LET order == orders[loc.i]
           n == FirstAddable(routes, order)
           vehicle == find_vehicle(vehicles, <<order>>, UsedIds(routes))
       IN IF loc.i \in assigned
          THEN UNCHANGED <<routes, assigned>>
          ELSE IF n # 0
          THEN /\ routes' = AppendOrder(routes, n, order)
               /\ assigned' = assigned \cup {loc.i}
          ELSE IF vehicle # <<>>
          THEN /\ routes' = Append(routes, CWNewRoute(vehicle[1], <<order>>))
               /\ assigned' = assigned \cup {loc.i}
          ELSE UNCHANGED <<routes, assigned>>
    /\ loc' = [loc EXCEPT !.i = @ + 1]
    /\ UNCHANGED <<alg, orders, vehicles, pc, result>>

\* Step 5 and the return: 2-opt on every route, (routes, len(assigned))
CWReturn ==
    /\ alg = "cw" /\ pc = "run"
    /\ loc.k > Len(loc.savings)
    /\ loc.i > Len(orders)
    /\ routes' = [n \in DOMAIN routes |->
                    calculate_route_metrics(
                        [routes[n] EXCEPT !.orders = two_opt_improve(@)])]
    /\ result' = [routes |-> routes', assigned_count |-> Cardinality(assigned)]
    /\ pc' = "done"
    /\ UNCHANGED <<alg, orders, vehicles, assigned, loc>>

(* ========================= DISTANCE-FIRST ============================= *)

\* max_radius of a vehicle type; Unlimited stands for float('inf')
Unlimited == 1000000

\* MaxRadius without the branch for vans
MaxRadius_VanUnlimited(v) ==
    IF Lower(v.type) = "bike" THEN BIKE_RANGE_KM ELSE Unlimited

\* MaxRadius with the bike's radius for every vehicle
MaxRadius_BikeForAll(v) == BIKE_RANGE_KM

MaxRadius(v) ==
    IF Lower(v.type) = "bike" THEN BIKE_RANGE_KM
    ELSE IF Lower(v.type) = "van" THEN VAN_RANGE_KM
    ELSE Unlimited

\* priority_map.get(order.get('priority', 'standard').lower(), 2)
DFPriority(o) ==
    CASE Lower(o.priority) = "express" -> 0
      [] Lower(o.priority) = "urgent" -> 1
      [] OTHER -> 2

\* DFCandidate without the test of assigned_orders
DFCandidate_Reassigning(order, route, assigned_orders) ==
    /\ route.totalWeight + order.weight <= route.vehicle.maxCapacity
    /\ DepotDist(order) <= MaxRadius(route.vehicle)

\* the tests an order passes before it is scored
DFCandidate(order, route, assigned_orders) ==
    /\ order.id \notin assigned_orders
    /\ route.totalWeight + order.weight <= route.vehicle.maxCapacity
    /\ DepotDist(order) <= MaxRadius(route.vehicle)

\* "if score < nearest_distance", both sides doubled:
\* score = dist_from_current + priority_score * 0.5
DFBetter(order, current_pos, nearest) ==
    \/ nearest.order = 0
    \/ 2 * calculate_distance(current_pos, order.pos) + DFPriority(order)
         < 2 * nearest.distance

\* the "for order in orders" scan; nearest is [order (index, 0: None), distance]
RECURSIVE DFNearest(_, _, _, _, _)
DFNearest(os, n, route, assigned_orders, nearest) ==
    IF n > Len(os) THEN nearest
    ELSE DFNearest(os, n + 1, route, assigned_orders,
            IF DFCandidate(os[n], route, assigned_orders)
               /\ DFBetter(os[n], route.currentPos, nearest)
            THEN [order |-> n,
                  distance |-> calculate_distance(route.currentPos, os[n].pos)]
            ELSE nearest)

NoNearest == [order |-> 0, distance |-> Unlimited]

\* the route dict of the greedy algorithms, with the position and clock of
\* its vehicle (current_lat/current_lng/current_time, currentLat/... in
\* time_first)
EmptyRoute(v) ==
    [vehicle |-> v, orders |-> <<>>, totalWeight |-> 0, totalDistance |-> 0,
     onTimeDeliveries |-> 0, lateDeliveries |-> 0, totalLateness |-> 0,
     currentPos |-> DEPOT, currentTime |-> SHIFT_START]

\* order_with_time
StopOf(order, arrival, pen) ==
    order @@ [arrivalTime |-> arrival, onTime |-> pen.on_time, lateness |-> pen.lateness]

\* the caller's list had the fields been attached to the order itself
InputAfterStop_Shared(os, stop) ==
    [n \in DOMAIN os |-> IF os[n].id = stop.id THEN stop ELSE os[n]]

\* the caller's list after "order_with_time = order.copy()" and the three
\* assignments to the copy: the list and its records are as they were
InputAfterStop(os, stop) == os

\* route['orders'][-1]
LastStop(route) == route.orders[Len(route.orders)]

\* the route after the order is appended over a leg of dist km
Deliver(route, order, dist) ==
    LET arrival == route.currentTime + TravelMinutes(dist) + SERVICE_TIME_MINUTES
        pen == calculate_time_penalty(arrival,
                   time_to_minutes(WindowEndOr(order, ClockStr(<<>>))),
                   MAX_TIME_DEVIATION_MINUTES)
    IN [route EXCEPT
          !.orders = Append(@, StopOf(order, arrival, pen)),
          !.totalWeight = @ + order.weight,
          !.totalDistance = @ + dist,
          !.onTimeDeliveries = IF pen.on_time THEN @ + 1 ELSE @,
          !.lateDeliveries = IF pen.on_time THEN @ ELSE @ + 1,
          !.totalLateness = @ + pen.lateness,
          !.currentPos = order.pos,
          !.currentTime = arrival]

\* the finished route: the leg back to the depot added, the vehicle's
\* position and clock dropped
Finished(route) ==
    [vehicle |-> route.vehicle, orders |-> route.orders,
     totalWeight |-> route.totalWeight,
     totalDistance |-> route.totalDistance
                       + calculate_distance(route.orders[Len(route.orders)].pos, DEPOT),
     onTimeDeliveries |-> route.onTimeDeliveries,
     lateDeliveries |-> route.lateDeliveries,
     totalLateness |-> route.totalLateness]

DFLoc(vs) ==
    LET sv == SortedVehicles(vs)
    IN [sorted_vehicles |-> sv, idx |-> 1, route |-> EmptyRoute(sv[1])]

\* one pass of "while True" that finds an order: assign the nearest order
DFAssign ==
    /\ alg = "df" /\ pc = "run"
    /\ loc.idx <= Len(loc.sorted_vehicles)
    /\ LET nearest == DFNearest(orders, 1, loc.route, assigned, NoNearest)
       IN /\ nearest.order # 0
          /\ loc' = [loc EXCEPT
                       !.route = Deliver(@, orders[nearest.order], nearest.distance)]
          /\ assigned' = assigned \cup {orders[nearest.order].id}
          /\ orders' = InputAfterStop(orders, LastStop(loc'.route))
    /\ UNCHANGED <<alg, vehicles, pc, routes, result>>

\* the pass that finds none: break, close the route, go to the next vehicle;
\* after the last vehicle return (routes, len(assigned_orders))
DFNextVehicle ==
    /\ alg = "df" /\ pc = "run"
    /\ loc.idx <= Len(loc.sorted_vehicles)
    /\ DFNearest(orders, 1, loc.route, assigned, NoNearest).order = 0
    /\ routes' = IF loc.route.orders # <<>>
                 THEN Append(routes, Finished(loc.route))
                 ELSE routes
    /\ IF loc.idx < Len(loc.sorted_vehicles)
       THEN /\ loc' = [loc EXCEPT !.idx = @ + 1,
                                  !.route = EmptyRoute(loc.sorted_vehicles[loc.idx + 1])]
            /\ UNCHANGED <<pc, result>>
       ELSE /\ loc' = [loc EXCEPT !.idx = @ + 1]
            /\ result' = [routes |-> routes', assigned_count |-> Cardinality(assigned)]
            /\ pc' = "done"
    /\ UNCHANGED <<alg, orders, vehicles, assigned>>

(* =========================== TIME-FIRST =============================== *)

\* key=lambda x: time_to_minutes(x.get('windowEnd', '23:59:00')) or 1440
\* ("or" takes 1440 for None and for 0)
TFOrderKey(o) ==
    LET m == time_to_minutes(WindowEndOr(o, ClockStr(<<23, 59, 0>>)))
    IN IF m = NoMinutes \/ m = 0 THEN 1440 ELSE m

TFSortedOrders(os) ==
    Vals(SortedByKey([i \in 1..Len(os) |-> [key |-> TFOrderKey(os[i]), val |-> os[i]]]))

\* TFFeasible without the capacity test
TFFeasible_AnyWeight(route, order) ==
    DepotDist(order) <= MaxRadius(route.vehicle)

\* the capacity and range tests of the route loop
TFFeasible(route, order) ==
    /\ route.totalWeight + order.weight <= route.vehicle.maxCapacity
    /\ DepotDist(order) <= MaxRadius(route.vehicle)

\* score = time_score + dist_to_order
TFScore(route, order) ==
    LET dist == calculate_distance(route.currentPos, order.pos)
        arrival == route.currentTime + TravelMinutes(dist) + SERVICE_TIME_MINUTES
        pen == calculate_time_penalty(arrival,
                   time_to_minutes(WindowEndOr(order, ClockStr(<<>>))),
                   MAX_TIME_DEVIATION_MINUTES)
    IN (IF pen.on_time THEN 0 ELSE pen.lateness * 10) + dist

\* TFBest with "score <= best_score": the last of the best routes
RECURSIVE TFBest_LastOnTies(_, _, _, _)
TFBest_LastOnTies(rs, n, order, best) ==
    IF n > Len(rs) THEN best
    ELSE TFBest_LastOnTies(rs, n + 1, order,
            IF TFFeasible(rs[n], order)
               /\ (best = 0 \/ TFScore(rs[n], order) <= TFScore(rs[best], order))
            THEN n ELSE best)

\* the "for route in routes" scan: index of the best route, 0 for None
RECURSIVE TFBest(_, _, _, _)
TFBest(rs, n, order, best) ==
    IF n > Len(rs) THEN best
    ELSE TFBest(rs, n + 1, order,
            IF TFFeasible(rs[n], order)
               /\ (best = 0 \/ TFScore(rs[n], order) < TFScore(rs[best], order))
            THEN n ELSE best)

TFLoc(os) == [sorted_orders |-> TFSortedOrders(os), k |-> 1]

TFRoutes(vs) ==
    LET sv == SortedVehicles(vs) IN [n \in 1..Len(sv) |-> EmptyRoute(sv[n])]

\* one iteration of "for order in sorted_orders"
TFStep ==
    /\ alg = "tf" /\ pc = "run"
    /\ loc.k <= Len(loc.sorted_orders)
    /\ LET order == loc.sorted_orders[loc.k]
           best == TFBest(routes, 1, order, 0)
       IN IF order.id \notin assigned /\ best # 0
          THEN /\ routes' = [routes EXCEPT ![best] =
                    Deliver(@, order, calculate_distance(@.currentPos, order.pos))]
               /\ assigned' = assigned \cup {order.id}
               /\ orders' = InputAfterStop(orders, LastStop(routes'[best]))
          ELSE UNCHANGED <<routes, assigned, orders>>
    /\ loc' = [loc EXCEPT !.k = @ + 1]
    /\ UNCHANGED <<alg, vehicles, pc, result>>

\* final_routes: the non-empty routes, each with its return leg
RECURSIVE FinalRoutes(_)
FinalRoutes(rs) ==
    IF rs = <<>> THEN <<>>
    ELSE (IF rs[1].orders # <<>> THEN <<Finished(rs[1])>> ELSE <<>>)
         \o FinalRoutes(Tail(rs))

TFReturn ==
    /\ alg = "tf" /\ pc = "run"
    /\ loc.k > Len(loc.sorted_orders)
    /\ routes' = FinalRoutes(routes)
    /\ result' = [routes |-> routes', assigned_count |-> Cardinality(assigned)]
    /\ pc' = "done"
    /\ UNCHANGED <<alg, orders, vehicles, assigned, loc>>

(* ======================== GENETIC ALGORITHM =========================== *)

\* random.sample(s, len(s)): every ordering of s
Shuffles(s) ==
    {[i \in 1..Len(s) |-> s[p[i]]] : p \in Permutations(1..Len(s))}

Segment(v_id, order_ids) == [v_id |-> v_id, order_ids |-> order_ids]

\* create_chromosome after the two shuffles: the "for order in order_list"
\* loop and the final append; v is v_idx + 1
RECURSIVE Pack(_, _, _, _, _, _)
Pack(order_list, vehicle_list, v, current_load, current_weight, chromosome) ==
    IF order_list = <<>> \/ v > Len(vehicle_list)
    THEN IF current_load # <<>> /\ v <= Len(vehicle_list)
         THEN Append(chromosome, Segment(vehicle_list[v].id, current_load))
         ELSE chromosome
    ELSE LET order == order_list[1]
             vehicle == vehicle_list[v]
             closed == IF current_load # <<>>
                       THEN Append(chromosome, Segment(vehicle.id, current_load))
                       ELSE chromosome
         IN IF current_weight + order.weight <= vehicle.maxCapacity
            THEN Pack(Tail(order_list), vehicle_list, v,
                      Append(current_load, order.id),
                      current_weight + order.weight, chromosome)
            ELSE IF v + 1 <= Len(vehicle_list)
            THEN Pack(Tail(order_list), vehicle_list, v + 1,
                      <<order.id>>, order.weight, closed)
            ELSE Pack(Tail(order_list), vehicle_list, v + 1,
                      current_load, current_weight, closed)

\* every chromosome create_chromosome() can return
create_chromosome(os, vs) ==
    {Pack(ol, vl, 1, <<>>, 0, <<>>) : ol \in Shuffles(os), vl \in Shuffles(vs)}

\* order_map[oid], vehicle_map[v_id]
OrderById(os, oid) == CHOOSE o \in {os[n] : n \in DOMAIN os} : o.id = oid
VehicleById(vs, vid) == CHOOSE v \in {vs[n] : n \in DOMAIN vs} : v.id = vid

\* the route a segment decodes to
Decode(seg, os, vs) ==
    LET stops == [n \in DOMAIN seg.order_ids |-> OrderById(os, seg.order_ids[n])]
    IN [vehicle |-> VehicleById(vs, seg.v_id),
        orders |-> stops,
        totalWeight |-> SumWeights(stops)]

\* the routes evaluate_fitness and the final conversion build from a chromosome
Decoded(ch, os, vs) == [n \in DOMAIN ch |-> Decode(ch[n], os, vs)]

RECURSIVE Factorial(_)
Factorial(n) == IF n <= 1 THEN 1 ELSE n * Factorial(n - 1)

\* evaluate_fitness, times FitnessScale so that it is an integer:
\* fitness = -total_dist * 0.30 - total_penalty * 0.25
\*           + avg_util * 1000 * 0.25 + assigned * 10 * 0.20
\* (total_penalty is 0: the orders of a genetic run carry no deadline)
FitnessScale == 10 * SmallCapacity * LargeCapacity * Factorial(MaxVehicles)

evaluate_fitness(ch, os, vs) ==
    LET rs == Decoded(ch, os, vs)
        total_dist == SeqSum([n \in DOMAIN rs |-> RouteDistance(rs[n].orders)])
        assigned_n == SeqSum([n \in DOMAIN rs |-> Len(rs[n].orders)])
        \* total_util, times SmallCapacity * LargeCapacity
        total_util == SeqSum([n \in DOMAIN rs |->
                        (rs[n].totalWeight * SmallCapacity * LargeCapacity)
                           \div rs[n].vehicle.maxCapacity])
    IN IF rs = <<>> THEN (0 - 10000) * FitnessScale
       ELSE (20 * assigned_n - 3 * total_dist) * (FitnessScale \div 10)
            + 2500 * (Factorial(MaxVehicles) \div Len(rs)) * total_util

\* Cleaned without the removal of duplicates
Cleaned_KeepAll(child, seen) == child

\* the removal of duplicates at the end of crossover
RECURSIVE Cleaned(_, _)
Cleaned(child, seen) ==
    IF child = <<>> THEN <<>>
    ELSE LET unique == SelectSeq(child[1].order_ids, LAMBDA oid : oid \notin seen)
         IN IF unique # <<>>
            THEN <<Segment(child[1].v_id, unique)>>
                 \o Cleaned(Tail(child), seen \cup {unique[n] : n \in DOMAIN unique})
            ELSE Cleaned(Tail(child), seen)

\* child = p1[:point] + p2[point:]
Spliced(p1, p2, point) == SubSeq(p1, 1, point) \o SubSeq(p2, point + 1, Len(p2))

MinLen(p1, p2) == IF Len(p1) <= Len(p2) THEN Len(p1) ELSE Len(p2)

\* crossover raises ValueError: random.randint(1, 0) has an empty range
CrossoverRaises(p1, p2) == p1 # <<>> /\ p2 # <<>> /\ MinLen(p1, p2) - 1 < 1

\* every chromosome crossover(p1, p2) can return
crossover(p1, p2) ==
    IF p1 = <<>> \/ p2 = <<>> THEN {IF p1 # <<>> THEN p1 ELSE p2}
    ELSE {Cleaned(Spliced(p1, p2, point), {}) : point \in 1..(MinLen(p1, p2) - 1)}

\* orders1[o1], orders2[o2] = orders2[o2], orders1[o1]
Swapped(ch, i, j, o1, o2) ==
    [ch EXCEPT ![i].order_ids[o1] = ch[j].order_ids[o2],
               ![j].order_ids[o2] = ch[i].order_ids[o1]]

\* every chromosome mutate(chromosome) can return: unchanged (no mutation,
\* 'move', 'shuffle', or fewer than two segments) or one swap
mutate(ch) ==
    {ch} \cup
    UNION {{Swapped(ch, ij[1], ij[2], o1o2[1], o1o2[2]) :
               o1o2 \in (DOMAIN ch[ij[1]].order_ids) \X (DOMAIN ch[ij[2]].order_ids)} :
           ij \in {x \in (DOMAIN ch) \X (DOMAIN ch) : x[1] # x[2]}}

GALoc ==
    [phase |-> "init", population |-> <<>>, new_pop |-> <<>>, gen |-> 0,
     fitness_scores |-> <<>>,
     best_solution |-> <<>>, best_fitness |-> 0, has_best |-> FALSE]

\* population = [create_chromosome() for _ in range(population_size)]
GAInitPopulation ==
    /\ alg = "ga" /\ pc = "run" /\ loc.phase = "init"
    /\ \E pop \in [1..PopulationSize -> create_chromosome(orders, vehicles)] :
          loc' = [loc EXCEPT !.population = pop, !.phase = "eval"]
    /\ UNCHANGED <<alg, orders, vehicles, pc, routes, assigned, result>>

FitnessScores(pop) == [n \in DOMAIN pop |-> evaluate_fitness(pop[n], orders, vehicles)]

MaxOf(scores) ==
    CHOOSE m \in {scores[n] : n \in DOMAIN scores} : \A n \in DOMAIN scores : scores[n] <= m

\* fitness_scores.index(max_fit)
IndexOf(scores, m) ==
    CHOOSE n \in DOMAIN scores : scores[n] = m /\ \A k \in 1..(n - 1) : scores[k] # m

\* the head of "for gen in range(generations)": score the population and
\* remember the best chromosome seen so far
GAEvaluate ==
    /\ alg = "ga" /\ pc = "run" /\ loc.phase = "eval"
    /\ loc.gen < Generations
    /\ LET fitness_scores == FitnessScores(loc.population)
           max_fit == MaxOf(fitness_scores)
           improved == ~loc.has_best \/ max_fit > loc.best_fitness
       IN loc' = [loc EXCEPT
                    !.best_fitness = IF improved THEN max_fit ELSE @,
                    !.best_solution =
                        IF improved
                        THEN loc.population[IndexOf(fitness_scores, max_fit)]
                        ELSE @,
                    !.has_best = TRUE,
                    !.fitness_scores = fitness_scores,
                    !.new_pop = <<>>,
                    !.phase = "breed"]
    /\ UNCHANGED <<alg, orders, vehicles, pc, routes, assigned, result>>

\* Tournament selection: random.sample(range(len(population)), t_size), then
\* the first index of the sample with the highest score.  The sample comes
\* in a random order, so every highest-scoring index of a sample can win.
TournamentWinners(scores) ==
    {n \in DOMAIN scores :
        \E t \in SUBSET (DOMAIN scores) :
            /\ Cardinality(t) = TOURNAMENT_SIZE
            /\ n \in t
            /\ \A k \in t : scores[k] <= scores[n]}

\* one iteration of "for _ in range(population_size)": breed one child; the
\* last child of a generation ends it (population = new_pop)
GABreed ==
    /\ alg = "ga" /\ pc = "run" /\ loc.phase = "breed"
    /\ LET scores == loc.fitness_scores
       IN \E i1 \in TournamentWinners(scores), i2 \in TournamentWinners(scores) :
          LET p1 == loc.population[i1]
              p2 == loc.population[i2]
          IN \E crossed \in BOOLEAN :
                /\ crossed => ~CrossoverRaises(p1, p2)
                /\ \E born \in (IF crossed THEN crossover(p1, p2) ELSE {p1}) :
                   \E child \in mutate(born) :
                      LET grown == Append(loc.new_pop, child)
                      IN IF Len(grown) < PopulationSize
                         THEN loc' = [loc EXCEPT !.new_pop = grown]
                         ELSE loc' = [loc EXCEPT !.population = grown,
                                                 !.new_pop = <<>>,
                                                 !.gen = @ + 1,
                                                 !.phase = "eval"]
    /\ UNCHANGED <<alg, orders, vehicles, pc, routes, assigned, result>>

\* the iteration in which crossover raises: random.randint(1, 0) when a
\* parent has a single segment; the exception leaves genetic_algorithm
GARaise ==
    /\ alg = "ga" /\ pc = "run" /\ loc.phase = "breed"
    /\ LET scores == loc.fitness_scores
       IN \E i1 \in TournamentWinners(scores), i2 \in TournamentWinners(scores) :
             CrossoverRaises(loc.population[i1], loc.population[i2])
    /\ pc' = "raised"
    /\ result' = [error |-> "ValueError"]
    /\ UNCHANGED <<alg, orders, vehicles, routes, assigned, loc>>

\* "Convert best to routes" and the return
GAReturn ==
    /\ alg = "ga" /\ pc = "run" /\ loc.phase = "eval"
    /\ loc.gen >= Generations
    /\ routes' = LET rs == Decoded(loc.best_solution, orders, vehicles)
                 IN [n \in DOMAIN rs |->
                        calculate_route_metrics(
                            [rs[n] EXCEPT !.orders = two_opt_improve(@)])]
    /\ result' = [routes |-> routes',
                  assigned_count |-> SeqSum([n \in DOMAIN routes' |-> Len(routes'[n].orders)])]
    /\ pc' = "done"
    /\ UNCHANGED <<alg, orders, vehicles, assigned, loc>>

(* ============================ STATISTICS ============================== *)

\* round(num / den, 1) in tenths, for num >= 0 and den > 0: the nearest
\* tenth, a tie (which no input of the model produces) to the even one
Round1(num, den) ==
    LET q == (20 * num + den) \div (2 * den)
    IN IF (20 * num + den) % (2 * den) = 0 /\ q % 2 = 1 THEN q - 1 ELSE q

AssignedCount_Routes(rs) == Len(rs)

\* assigned_count = sum(len(r['orders']) for r in routes)
AssignedCount(rs) == SeqSum([n \in DOMAIN rs |-> Len(rs[n].orders)])

\* calculate_algorithm_stats(routes, total_orders); the rounded values are
\* in tenths
calculate_algorithm_stats(rs, total_orders) ==
    LET total_distance == SeqSum([n \in DOMAIN rs |-> rs[n].totalDistance])
        total_on_time == SeqSum([n \in DOMAIN rs |-> rs[n].onTimeDeliveries])
        total_late == SeqSum([n \in DOMAIN rs |-> rs[n].lateDeliveries])
        total_lateness == SeqSum([n \in DOMAIN rs |-> rs[n].totalLateness])
        assigned_count == AssignedCount(rs)
        total_capacity == SeqSum([n \in DOMAIN rs |-> rs[n].vehicle.maxCapacity])
        total_weight == SeqSum([n \in DOMAIN rs |-> rs[n].totalWeight])
    IN [totalDistance |-> 10 * total_distance,
        avgDistance |-> IF rs # <<>> THEN Round1(total_distance, Len(rs)) ELSE 0,
        assignedOrders |-> assigned_count,
        unassignedOrders |-> total_orders - assigned_count,
        vehiclesUsed |-> Len(rs),
        onTimeDeliveries |-> total_on_time,
        lateDeliveries |-> total_late,
        avgLateness |-> IF total_late > 0 THEN Round1(total_lateness, total_late)
                        ELSE 0,
        avgUtilization |-> IF total_capacity > 0
                           THEN Round1(total_weight * 100, total_capacity)
                           ELSE 0]

\* the caller's next statement after an algorithm has returned:
\* stats = calculate_algorithm_stats(routes, len(orders))
ReportStats ==
    /\ pc = "done"
    /\ alg \in {"df", "tf", "cw", "sweep", "bmt"}
    /\ result' = [stats |-> calculate_algorithm_stats(result.routes, Len(orders))]
                 @@ result
    /\ pc' = "reported"
    /\ UNCHANGED <<alg, orders, vehicles, routes, assigned, loc>>

(* --------------------------- inputs ----------------------------------- *)

\* a bike carries the small load, a truck the large one, a van either
TypedCapacities ==
    [type : {"bike"}, maxCapacity : {SmallCapacity}]
    \cup [type : {"Van"}, maxCapacity : {SmallCapacity, LargeCapacity}]
    \cup [type : {"truck"}, maxCapacity : {LargeCapacity}]

VehicleKinds(fuels) ==
    {tc @@ [fuelType |-> f] : tc \in TypedCapacities, f \in fuels}

VehicleLists == {WithIds(s) : s \in SeqsUpTo(VehicleKinds(FuelTypes), MaxVehicles)}

\* fleets for the algorithms that never read fuelType
DieselLists == {WithIds(s) : s \in SeqsUpTo(VehicleKinds({"diesel"}), MaxVehicles)}

OrderLists(kinds) == {WithIds(s) : s \in SeqsUpTo(kinds, MaxOrders)}

PlainOrders ==
    [pos : Positions, weight : Weights, priority : {"standard"}, windowEnd : {NoWindow}]


InitSweep ==
    /\ alg = "sweep"
    /\ orders \in OrderLists(PlainOrders)
    /\ vehicles \in VehicleLists
    /\ loc = SweepLoc(orders, vehicles)

PriorityOrders(positions) ==
    [pos : positions, weight : Weights, priority : Priorities, windowEnd : {NoWindow}]

InitBMT ==
    /\ alg = "bmt"
    /\ orders \in OrderLists(PriorityOrders(NearPositions))
    /\ vehicles \in VehicleLists
    /\ loc = BMTLoc(orders, vehicles)

InitDF ==
    /\ alg = "df"
    /\ orders \in OrderLists(PriorityOrders(Positions))
    /\ vehicles \in VehicleLists
    /\ loc = DFLoc(vehicles)

WindowOrders ==
    [pos : Positions, weight : Weights, priority : {"standard"}, windowEnd : Windows]

InitTF ==
    /\ alg = "tf"
    /\ orders \in OrderLists(WindowOrders)
    /\ vehicles \in VehicleLists
    /\ loc = TFLoc(orders)

InitCW ==
    /\ alg = "cw"
    /\ orders \in OrderLists(PriorityOrders(Positions))
    /\ vehicles \in DieselLists
    /\ loc = CWLoc(orders)

Init ==
    /\ pc = "run"
    /\ assigned = {}
    /\ result = NoResult
    /\ (InitDF \/ InitTF \/ InitCW \/ InitSweep \/ InitBMT)
    /\ routes = IF alg = "tf" THEN TFRoutes(vehicles) ELSE <<>>

Next ==
    \/ DFAssign
    \/ DFNextVehicle
    \/ TFStep
    \/ TFReturn
    \/ SweepStep
    \/ SweepBreak
    \/ SweepReturn
    \/ BMTStep
    \/ BMTReturn
    \/ CWPairStep
    \/ CWRemainStep
    \/ CWReturn
    \/ ReportStats

Spec == Init /\ [][Next]_vars

\* the genetic algorithm, whose runs branch on every random choice
\* create_chromosome shuffles both lists, so one ordering of each input is
\* enough: a light order near the depot, a heavy one 30 km away
GALight == [pos |-> 10, weight |-> 3, priority |-> "standard", windowEnd |-> NoWindow]
GAHeavy == [pos |-> -30, weight |-> 8, priority |-> "standard", windowEnd |-> NoWindow]

GAOrderLists == {WithIds(s) : s \in {<<>>, <<GALight>>, <<GAHeavy>>, <<GALight, GAHeavy>>}}

GABike == [type |-> "bike", maxCapacity |-> SmallCapacity, fuelType |-> "diesel"]
GATruck == [type |-> "truck", maxCapacity |-> LargeCapacity, fuelType |-> "diesel"]

\* two trucks score alike whichever takes which order, so that a tournament
\* can pick two parents that differ
GAFleets ==
    {WithIds(s) : s \in {<<>>, <<GABike>>, <<GATruck>>, <<GABike, GATruck>>,
                         <<GATruck, GATruck>>}}

InitGA ==
    /\ alg = "ga"
    /\ pc = "run"
    /\ orders \in GAOrderLists
    /\ vehicles \in GAFleets
    /\ loc = GALoc
    /\ routes = <<>>
    /\ assigned = {}
    /\ result = NoResult

NextGA ==
    \/ GAInitPopulation
    \/ GAEvaluate
    \/ GABreed
    \/ GARaise
    \/ GAReturn

SpecGA == InitGA /\ [][NextGA]_vars

(* ---------------- long trips (the shift limit) -------------------------- *)

\* one or two diesel trucks
TruckLists ==
    {WithIds(s) : s \in SeqsUpTo([type : {"truck"}, maxCapacity : {LargeCapacity},
                                  fuelType : {"diesel"}], MaxVehicles)}

InitShift ==
    LET
        \* 100 km is five hours there and back, 210 km more than ten
        FarPositions == {100, 210}
        FarOrders ==
            [pos : FarPositions, weight : {8}, priority : {"standard"}, windowEnd : {NoWindow}]
    IN
    /\ pc = "run"
    /\ assigned = {}
    /\ result = NoResult
    /\ routes = <<>>
    /\ orders \in OrderLists(FarOrders)
    /\ vehicles \in TruckLists
    /\ \/ alg = "cw" /\ loc = CWLoc(orders)
       \/ alg = "sweep" /\ loc = SweepLoc(orders, vehicles)
       \/ alg = "bmt" /\ loc = BMTLoc(orders, vehicles)

NextShift ==
    \/ SweepStep
    \/ SweepBreak
    \/ SweepReturn
    \/ BMTStep
    \/ BMTReturn
    \/ CWPairStep
    \/ CWRemainStep
    \/ CWReturn

SpecShift == InitShift /\ [][NextShift]_vars

InitTrips ==
    LET
        \* the multi-trip algorithm with orders a bike can reach (10 km) and orders
        \* whose round trip takes seven and a half hours of the ten-hour shift (150 km)
        TripPositions == {10, 150}
    IN
    /\ pc = "run"
    /\ assigned = {}
    /\ result = NoResult
    /\ routes = <<>>
    /\ alg = "bmt"
    /\ orders \in OrderLists(PriorityOrders(TripPositions))
    /\ vehicles \in DieselLists
    /\ loc = BMTLoc(orders, vehicles)

NextTrips ==
    \/ BMTStep
    \/ BMTReturn

SpecTrips == InitTrips /\ [][NextTrips]_vars

(* ---------------- window ends of every form ----------------------------- *)

InitForms ==
    LET
        \* no key, '', '8' (no minutes), '8:xx' and 'xx:30' (no integer), '08:30',
        \* and the first and the last minute of the day, '00:00' and '23:59'
        WindowForms ==
            {NoWindow, ClockStr(<<>>), ClockStr(<<8>>), ClockStr(<<8, NaN>>),
             ClockStr(<<NaN, 30>>), ClockStr(<<8, 30>>), ClockStr(<<0, 0>>),
             ClockStr(<<23, 59>>)}
        \* 30 km is reached 20 minutes after 08:30, 60 km 65 minutes after it
        FormOrders ==
            [pos : {-30, 60}, weight : {3}, priority : {"standard"}, windowEnd : WindowForms]
    IN
    /\ pc = "run"
    /\ assigned = {}
    /\ result = NoResult
    /\ orders \in OrderLists(FormOrders)
    /\ vehicles \in TruckLists
    /\ \/ alg = "df" /\ loc = DFLoc(vehicles)
       \/ alg = "tf" /\ loc = TFLoc(orders)
    /\ routes = IF alg = "tf" THEN TFRoutes(vehicles) ELSE <<>>

NextForms ==
    \/ DFAssign
    \/ DFNextVehicle
    \/ TFStep
    \/ TFReturn
    \/ ReportStats

SpecForms == InitForms /\ [][NextForms]_vars

(* ---------------- optimize_routes (POST /api/optimize) ------------------ *)

\* the request has arrived: data.get('orders', []), data.get('vehicles', [])
InitOptimize ==
    /\ alg = "optimize"
    /\ pc = "request"
    /\ orders \in {<<>>} \cup OrderLists(PlainOrders)
    /\ vehicles \in {<<>>} \cup DieselLists
    /\ routes = <<>>
    /\ assigned = {}
    /\ loc = NoRoute
    /\ result = NoResult

\* "if not orders or not vehicles": the response 400
OptimizeReject ==
    /\ alg = "optimize" /\ pc = "request"
    /\ orders = <<>> \/ vehicles = <<>>
    /\ result' = [status |-> 400, error |-> "Missing orders or vehicles"]
    /\ pc' = "responded"
    /\ UNCHANGED <<alg, orders, vehicles, routes, assigned, loc>>

\* the call distance_first_algorithm(orders.copy(), vehicles.copy())
OptimizeRunDistance ==
    /\ alg = "optimize" /\ pc = "request"
    /\ orders # <<>> /\ vehicles # <<>>
    /\ alg' = "df"
    /\ pc' = "run"
    /\ loc' = DFLoc(vehicles)
    /\ UNCHANGED <<orders, vehicles, routes, assigned, result>>

\* routes_distance and stats_distance are kept, and
\* time_first_algorithm(orders.copy(), vehicles.copy()) is called
OptimizeRunTime ==
    /\ alg = "df" /\ pc = "reported"
    /\ alg' = "tf"
    /\ pc' = "run"
    /\ loc' = [distance |-> result] @@ TFLoc(orders)
    /\ routes' = TFRoutes(vehicles)
    /\ assigned' = {}
    /\ result' = NoResult
    /\ UNCHANGED <<orders, vehicles>>

\* the comparison that is printed, with onTimeDeliveries / assignedOrders
\* for both algorithms, and the response; "except Exception" answers 500
OptimizeRespond ==
    /\ alg = "tf" /\ pc = "reported"
    /\ result' =
          IF loc.distance.stats.assignedOrders = 0 \/ result.stats.assignedOrders = 0
          THEN [status |-> 500, error |-> "division by zero"]
          ELSE [status |-> 200,
                distanceFirst |-> [routes |-> loc.distance.routes,
                                   stats |-> loc.distance.stats],
                timeFirst |-> [routes |-> result.routes, stats |-> result.stats],
                totalOrders |-> Len(orders),
                totalVehicles |-> Len(vehicles)]
    /\ pc' = "responded"
    /\ UNCHANGED <<alg, orders, vehicles, routes, assigned, loc>>

NextOptimize ==
    \/ OptimizeReject
    \/ OptimizeRunDistance
    \/ DFAssign
    \/ DFNextVehicle
    \/ ReportStats
    \/ OptimizeRunTime
    \/ TFStep
    \/ TFReturn
    \/ OptimizeRespond

SpecOptimize == InitOptimize /\ [][NextOptimize]_vars

(* ------------------- calculate_time_penalty on its own ---------------- *)

InitPenalty ==
    LET
        \* arrivals around the window end 08:30, from before it to past the band
        PenaltyArrivals == {SHIFT_START + m : m \in 15..95}
        \* None, midnight, 08:30
        PenaltyWindowEnds == {NoMinutes, 0, SHIFT_START + 30}
        PenaltyTolerances == {0 - 10, 0, MAX_TIME_DEVIATION_MINUTES}
    IN
    /\ alg = "penalty"
    /\ orders = <<>> /\ vehicles = <<>>
    /\ pc = "run"
    /\ routes = <<>> /\ assigned = {}
    /\ loc \in [arrival_time : PenaltyArrivals,
                 window_end : PenaltyWindowEnds,
                 tolerance_minutes : PenaltyTolerances]
    /\ result = NoResult

PenaltyCall ==
    /\ alg = "penalty" /\ pc = "run"
    /\ result' = calculate_time_penalty(loc.arrival_time, loc.window_end,
                                        loc.tolerance_minutes)
    /\ pc' = "done"
    /\ UNCHANGED <<alg, orders, vehicles, routes, assigned, loc>>

NextPenalty == PenaltyCall

SpecPenalty == InitPenalty /\ [][NextPenalty]_vars

(* ============================ PROPERTIES ============================== *)

\* the routes an algorithm holds at the moment: those already in its list
\* and, while it runs, the ones it is still filling
OpenRoutes ==
    IF pc # "run" THEN <<>>
    ELSE IF alg = "df" THEN <<loc.route>>
    ELSE IF alg = "sweep"
    THEN (IF loc.current_route = NoRoute THEN <<>> ELSE <<loc.current_route>>)
    ELSE IF alg = "bmt"
    THEN [n \in 1..Len(loc.sorted_vehicles) |->
            [vehicle |-> loc.sorted_vehicles[n],
             orders |-> loc.vehicle_trips[loc.sorted_vehicles[n].id],
             totalWeight |-> loc.vehicle_load[loc.sorted_vehicles[n].id]]]
    ELSE <<>>

AllRoutes == routes \o OpenRoutes

\* how often an order identifier occurs among the stops of a list of routes
StopCount(rs, oid) ==
    Cardinality(UNION {{<<n, k>> : k \in {j \in DOMAIN rs[n].orders :
                                              rs[n].orders[j].id = oid}} :
                       n \in DOMAIN rs})

\* C1: every route sweep_algorithm returns has a totalWeight that is the sum
\* of its stops' weights and is at most its vehicle's maxCapacity, also a
\* route opened when the previous vehicle's route was closed.
C1_SweepWithinCapacity ==
    (alg = "sweep" /\ pc = "done") =>
        \A n \in DOMAIN result.routes :
            /\ result.routes[n].totalWeight = SumWeights(result.routes[n].orders)
            /\ result.routes[n].totalWeight <= result.routes[n].vehicle.maxCapacity

\* C2: every route genetic_algorithm returns has totalWeight at most its
\* vehicle's maxCapacity, and so has every segment of every chromosome of the
\* population, whatever the random choices were.
C2_GeneticWithinCapacity ==
    alg = "ga" =>
        /\ pc = "done" =>
              \A n \in DOMAIN result.routes :
                  result.routes[n].totalWeight <= result.routes[n].vehicle.maxCapacity
        /\ \A c \in DOMAIN loc.population :
              \A n \in DOMAIN loc.population[c] :
                  LET r == Decode(loc.population[c][n], orders, vehicles)
                  IN r.totalWeight <= r.vehicle.maxCapacity

\* C3: every trip balanced_multi_trip_algorithm returns, closed on overflow
\* or flushed at the end, has totalWeight at most its vehicle's maxCapacity.
C3_MultiTripWithinCapacity ==
    (alg = "bmt" /\ pc = "done") =>
        \A n \in DOMAIN result.routes :
            result.routes[n].totalWeight <= result.routes[n].vehicle.maxCapacity

\* C4: in distance_first, time_first and Clarke-Wright, after every step each
\* route's totalWeight is the sum of the weights of its stops and is at most
\* its vehicle's maxCapacity.
C4_GreedyWithinCapacity ==
    alg \in {"df", "tf", "cw"} =>
        \A n \in DOMAIN AllRoutes :
            /\ AllRoutes[n].totalWeight = SumWeights(AllRoutes[n].orders)
            /\ AllRoutes[n].totalWeight <= AllRoutes[n].vehicle.maxCapacity

\* one of the three algorithms has returned a route of several stops and has
\* left unassigned an order within every vehicle's range, which is too heavy
\* for what is left of each route's capacity
C4_Witness ==
    /\ alg \in {"df", "tf", "cw"} /\ pc = "done"
    /\ \E n \in DOMAIN result.routes : Len(result.routes[n].orders) >= 2
    /\ \E k \in DOMAIN orders :
          /\ orders[k].id \notin assigned
          /\ DepotDist(orders[k]) <= 15
          /\ \A n \in DOMAIN result.routes :
                result.routes[n].totalWeight + orders[k].weight
                    > result.routes[n].vehicle.maxCapacity

\* C5: genetic_algorithm never raises for an input with at least one order
\* and at least one vehicle, whatever the random choices and however many
\* segments the selected parents have.
C5_GeneticNeverRaises ==
    (alg = "ga" /\ Len(orders) >= 1 /\ Len(vehicles) >= 1) => pc # "raised"

\* C6: in distance_first and time_first every stop lies within its vehicle
\* type's range of the depot, 15 km on a bike and 50 km on a van, at every
\* step; and a fleet of one bike with one order 30 km away ends with the
\* order unassigned and no route.
C6_GreedyWithinRange ==
    alg \in {"df", "tf"} =>
        /\ \A n \in DOMAIN AllRoutes : \A k \in DOMAIN AllRoutes[n].orders :
              /\ Lower(AllRoutes[n].vehicle.type) = "bike"
                    => DepotDist(AllRoutes[n].orders[k]) <= 15
              /\ Lower(AllRoutes[n].vehicle.type) = "van"
                    => DepotDist(AllRoutes[n].orders[k]) <= 50
        /\ (/\ pc = "done"
            /\ Len(vehicles) = 1 /\ Lower(vehicles[1].type) = "bike"
            /\ Len(orders) = 1 /\ DepotDist(orders[1]) = 30)
           => (result.routes = <<>> /\ result.assigned_count = 0)

\* distance_first has returned for one bike and one order 30 km away that the
\* bike could carry
C6_Witness ==
    /\ alg = "df" /\ pc = "done"
    /\ Len(vehicles) = 1 /\ Lower(vehicles[1].type) = "bike"
    /\ Len(orders) = 1 /\ DepotDist(orders[1]) = 30
    /\ orders[1].weight <= vehicles[1].maxCapacity
    /\ result.routes = <<>>

\* C7: in every route on a bike returned by sweep_algorithm or by
\* genetic_algorithm every stop is at most 15 km from the depot.
C7_SweepGeneticBikeRange ==
    (alg \in {"sweep", "ga"} /\ pc = "done") =>
        \A n \in DOMAIN result.routes :
            Lower(result.routes[n].vehicle.type) = "bike" =>
                \A k \in DOMAIN result.routes[n].orders :
                    DepotDist(result.routes[n].orders[k]) <= 15

\* C8: in every route on a bike of Clarke-Wright or balanced multi-trip every
\* stop is at most 15 km from the depot, at every step and whichever branch
\* placed the stop.
C8_SavingsMultiTripBikeRange ==
    alg \in {"cw", "bmt"} =>
        \A n \in DOMAIN AllRoutes :
            Lower(AllRoutes[n].vehicle.type) = "bike" =>
                \A k \in DOMAIN AllRoutes[n].orders :
                    DepotDist(AllRoutes[n].orders[k]) <= 15

\* Clarke-Wright has returned a route on a bike and has left unassigned an
\* order beyond 15 km that an unused bike could carry
C8_Witness ==
    /\ alg = "cw" /\ pc = "done"
    /\ \E n \in DOMAIN result.routes : Lower(result.routes[n].vehicle.type) = "bike"
    /\ \E k \in DOMAIN orders, m \in DOMAIN vehicles :
          /\ orders[k].id \notin assigned
          /\ DepotDist(orders[k]) > 15
          /\ Lower(vehicles[m].type) = "bike"
          /\ vehicles[m].id \notin UsedIds(result.routes)
          /\ orders[k].weight <= vehicles[m].maxCapacity

\* C9: in the output of Clarke-Wright, sweep, genetic and balanced multi-trip
\* every stop lies within its vehicle type's range of the depot: 15 km on a
\* bike, 50 km on a van.
C9_VrpWithinRange ==
    (alg \in {"cw", "sweep", "ga", "bmt"} /\ pc = "done") =>
        \A n \in DOMAIN result.routes : \A k \in DOMAIN result.routes[n].orders :
            /\ Lower(result.routes[n].vehicle.type) = "bike"
                  => DepotDist(result.routes[n].orders[k]) <= 15
            /\ Lower(result.routes[n].vehicle.type) = "van"
                  => DepotDist(result.routes[n].orders[k]) <= 50

\* C10: with pairwise distinct order identifiers no identifier occurs twice
\* among the stops of the routes of distance_first, time_first, Clarke-Wright,
\* sweep and balanced multi-trip, in one route or in two, after every step.
C10_NoOrderTwice ==
    alg \in {"df", "tf", "cw", "sweep", "bmt"} =>
        \A k \in DOMAIN orders : StopCount(AllRoutes, orders[k].id) <= 1

\* every order of a three-order input is on a route, over at least two routes
C10_Witness ==
    /\ alg \in {"df", "tf", "cw", "sweep", "bmt"}
    /\ Len(orders) = MaxOrders
    /\ \A k \in DOMAIN orders : StopCount(AllRoutes, orders[k].id) = 1
    /\ Cardinality({n \in DOMAIN AllRoutes : AllRoutes[n].orders # <<>>}) >= 2

\* the chromosomes a genetic run holds: the population, the children bred
\* so far and the remembered best solution
GAChromosomes ==
    {loc.population[c] : c \in DOMAIN loc.population}
    \cup {loc.new_pop[c] : c \in DOMAIN loc.new_pop}
    \cup {loc.best_solution}

\* C11: in genetic_algorithm every chromosome of every population, every
\* child and the remembered best solution hold each order identifier at
\* most once over all segments, and no returned route list delivers an
\* order twice.
C11_GeneticNoOrderTwice ==
    LET
        \* how often an order identifier occurs in the segments of a chromosome
        IdCount(ch, oid) ==
            Cardinality(UNION {{<<n, k>> : k \in {j \in DOMAIN ch[n].order_ids :
                                                      ch[n].order_ids[j] = oid}} :
                               n \in DOMAIN ch})
    IN
    alg = "ga" =>
        /\ \A ch \in GAChromosomes : \A k \in DOMAIN orders :
              IdCount(ch, orders[k].id) <= 1
        /\ pc = "done" =>
              \A k \in DOMAIN orders : StopCount(result.routes, orders[k].id) <= 1

\* a bred population holds a chromosome that create_chromosome cannot
\* produce, with a segment that lost an order to the de-duplication or
\* exchanged one in a swap
C11_Witness ==
    /\ alg = "ga" /\ loc.gen >= 1 /\ Len(orders) = 2
    /\ \E c \in DOMAIN loc.population :
          /\ loc.population[c] \notin create_chromosome(orders, vehicles)
          /\ loc.population[c] # <<>>

\* the input orders that are a stop of no returned route
Unrouted(rs) ==
    {k \in DOMAIN orders : StopCount(rs, orders[k].id) = 0}

\* C12: for the distance-first, time-first, sweep and multi-trip algorithms
\* the returned assigned count is the number of stops over the returned
\* routes, and the statistics report assignedOrders + unassignedOrders =
\* the number of input orders, with unassignedOrders the number of input
\* orders that are in no route, never negative.
C12_AssignedCountIsStops ==
    alg \in {"df", "tf", "sweep", "bmt"} /\ pc \in {"done", "reported"} =>
        /\ result.assigned_count
              = SeqSum([n \in DOMAIN result.routes |-> Len(result.routes[n].orders)])
        /\ pc = "reported" =>
              /\ result.stats.assignedOrders + result.stats.unassignedOrders
                    = Len(orders)
              /\ result.stats.unassignedOrders
                    = Cardinality(Unrouted(result.routes))
              /\ result.stats.unassignedOrders >= 0

C12_Witness ==
    /\ alg \in {"df", "tf", "sweep", "bmt"} /\ pc = "reported"
    /\ Len(result.routes) >= 2
    /\ result.stats.assignedOrders = 2
    /\ result.stats.unassignedOrders = 1

\* C13: when distance_first_algorithm returns, every unassigned order is
\* infeasible for every vehicle: it weighs more than the vehicle can still
\* carry, or it is farther from the depot than the vehicle's range limit
\* (bike 15 km, van 50 km).  When all orders are in range of the first
\* vehicle in sort order and their combined weight fits it, all orders are
\* assigned, there are 1 to 2 non-empty routes and unassignedOrders is 0.
C13_GreedyLeavesNothingFeasible ==
    LET
        \* what the vehicle can still carry once distance_first has returned
        RemainingCapacity(v, rs) ==
            v.maxCapacity
            - SeqSum([n \in DOMAIN rs |->
                         IF rs[n].vehicle.id = v.id THEN rs[n].totalWeight ELSE 0])
    IN
    alg = "df" /\ pc \in {"done", "reported"} =>
        /\ \A v \in DOMAIN vehicles : \A k \in Unrouted(result.routes) :
              \/ orders[k].weight > RemainingCapacity(vehicles[v], result.routes)
              \/ Lower(vehicles[v].type) = "bike" /\ DepotDist(orders[k]) > 15
              \/ Lower(vehicles[v].type) = "van" /\ DepotDist(orders[k]) > 50
        /\ LET first == loc.sorted_vehicles[1]
           IN (/\ SumWeights(orders) <= first.maxCapacity
               /\ \A k \in DOMAIN orders :
                     /\ Lower(first.type) = "bike" => DepotDist(orders[k]) <= 15
                     /\ Lower(first.type) = "van" => DepotDist(orders[k]) <= 50)
              => /\ result.assigned_count = Len(orders)
                 /\ Len(result.routes) \in 1..2
                 /\ \A n \in DOMAIN result.routes : result.routes[n].orders # <<>>
                 /\ pc = "reported" => result.stats.unassignedOrders = 0

\* the scenario: three orders that together fit the electric van, which
\* sorts before the truck, all assigned and reported
C13_Witness ==
    /\ alg = "df" /\ pc = "reported"
    /\ Len(orders) = 3 /\ Len(vehicles) = 2
    /\ Lower(vehicles[1].type) = "truck" /\ Lower(vehicles[2].type) = "van"
    /\ vehicles[2].fuelType = "electric"
    /\ SumWeights(orders) <= vehicles[2].maxCapacity
    /\ \A k \in DOMAIN orders : DepotDist(orders[k]) <= 50
    /\ result.stats.unassignedOrders = 0
    /\ Len(result.routes) = 1

\* the three tiers: no window end, or arrival by the window end: (true, 0);
\* after it and within the tolerance: (true, arrival - window_end);
\* after the tolerance: (false, arrival - window_end)
ThreeTiers(a, w, t, r) ==
    /\ w = NoMinutes => r = [on_time |-> TRUE, lateness |-> 0]
    /\ w # NoMinutes =>
          /\ a <= w => r = [on_time |-> TRUE, lateness |-> 0]
          /\ w < a /\ a <= w + t => r = [on_time |-> TRUE, lateness |-> a - w]
          /\ a > w + t => r = [on_time |-> FALSE, lateness |-> a - w]

\* C14: for a tolerance that is not negative calculate_time_penalty returns
\* (true, 0) with no window end or for an arrival by the window end,
\* (true, arrival - window_end) for an arrival after it and within the
\* tolerance, (false, arrival - window_end) for an arrival after the
\* tolerance; so penalty(w, w) = (true, 0) and penalty(w + 61, w, 60) =
\* (false, 61).
C14_ThreeTierPenalty ==
    alg = "penalty" /\ pc = "done" /\ loc.tolerance_minutes >= 0 =>
        /\ ThreeTiers(loc.arrival_time, loc.window_end, loc.tolerance_minutes, result)
        /\ (loc.window_end # NoMinutes /\ loc.arrival_time = loc.window_end)
              => result = [on_time |-> TRUE, lateness |-> 0]
        /\ (/\ loc.window_end # NoMinutes /\ loc.tolerance_minutes = 60
            /\ loc.arrival_time = loc.window_end + 61)
              => result = [on_time |-> FALSE, lateness |-> 61]

\* an arrival 61 minutes after the window end, tolerance 60, has been scored
C14_Witness ==
    /\ alg = "penalty" /\ pc = "done"
    /\ loc.window_end # NoMinutes /\ loc.tolerance_minutes = 60
    /\ loc.arrival_time = loc.window_end + 61
    /\ result = [on_time |-> FALSE, lateness |-> 61]

\* C14 as stated, for every integer tolerance: the three tiers
C14_ThreeTierPenaltyAllInputs ==
    alg = "penalty" /\ pc = "done" =>
        ThreeTiers(loc.arrival_time, loc.window_end, loc.tolerance_minutes, result)

\* the chromosome create_chromosome builds when neither sample permutes
UnshuffledChromosome == Pack(orders, vehicles, 1, <<>>, 0, <<>>)

\* "Convert best to routes" for the chromosome ch
GARoutes(ch) ==
    LET rs == Decoded(ch, orders, vehicles)
    IN [n \in DOMAIN rs |->
           calculate_route_metrics([rs[n] EXCEPT !.orders = two_opt_improve(@)])]

\* C15: the best fitness and the set of routes of genetic_algorithm are
\* determined by the arguments of the call (orders, vehicles, generations,
\* population size): every run returns what the run returns in which no
\* sample permutes, no crossover is drawn and no mutation swaps.
C15_GeneticDeterminedByArguments ==
    alg = "ga" /\ pc = "done" =>
        /\ {result.routes[n] : n \in DOMAIN result.routes}
              = {GARoutes(UnshuffledChromosome)[n] :
                    n \in DOMAIN GARoutes(UnshuffledChromosome)}
        /\ loc.best_fitness = evaluate_fitness(UnshuffledChromosome, orders, vehicles)

\* the run without permutation has returned for two orders and two vehicles
C15_Witness ==
    /\ alg = "ga" /\ pc = "done"
    /\ Len(orders) = 2 /\ Len(vehicles) = 2
    /\ result.routes = GARoutes(UnshuffledChromosome)
    /\ loc.best_solution = UnshuffledChromosome

\* how many routes are on the vehicle
RouteCount(rs, v_id) == Cardinality({n \in DOMAIN rs : rs[n].vehicle.id = v_id})

\* C16: every vehicle identifier is in at most one route returned by
\* genetic_algorithm, and in at most one segment of every chromosome of a
\* population bred by crossover.
C16_GeneticOneRoutePerVehicle ==
    LET
        \* how many segments of a chromosome are on the vehicle
        SegmentCount(ch, v_id) == Cardinality({n \in DOMAIN ch : ch[n].v_id = v_id})
    IN
    alg = "ga" =>
        /\ \A ch \in GAChromosomes : \A v \in DOMAIN vehicles :
              SegmentCount(ch, vehicles[v].id) <= 1
        /\ pc = "done" =>
              \A v \in DOMAIN vehicles : RouteCount(result.routes, vehicles[v].id) <= 1

C18_VrpWithinShift ==
    LET
        \* the simulated duration of the routes of one vehicle: the legs from the
        \* depot, between consecutive stops and back at AVG_SPEED_KMH, and
        \* SERVICE_TIME_MINUTES at every stop
        ShiftMinutes(rs, v_id) ==
            SeqSum([n \in DOMAIN rs |->
                       IF rs[n].vehicle.id = v_id
                       THEN TravelMinutes(RouteDistance(rs[n].orders))
                            + SERVICE_TIME_MINUTES * Len(rs[n].orders)
                       ELSE 0])
    IN
    (alg \in {"cw", "sweep", "ga", "bmt"} /\ pc = "done") =>
        \A v \in DOMAIN vehicles : ShiftMinutes(result.routes, vehicles[v].id) <= 600

\* C19: avgLateness is the lateness of the stops counted as late (onTime
\* false) divided by their number, to one decimal, and 0 when no stop is
\* late; the lateness of stops that are on time inside the grace band does
\* not enter it.
C19_AvgLatenessOverLateOnly ==
    LET
        \* the lateness of the stops of the routes that count as late
        LateStops(rs) ==
            UNION {{<<n, k>> : k \in {j \in DOMAIN rs[n].orders : ~rs[n].orders[j].onTime}} :
                   n \in DOMAIN rs}
        RECURSIVE SumLateness(_, _)
        SumLateness(rs, stops) ==
            IF stops = {} THEN 0
            ELSE LET s == CHOOSE x \in stops : TRUE
                 IN rs[s[1]].orders[s[2]].lateness + SumLateness(rs, stops \ {s})
    IN
    alg \in {"df", "tf"} /\ pc = "reported" =>
        LET late == LateStops(result.routes)
            n == Cardinality(late)
            sum == SumLateness(result.routes, late)
            d == 20 * sum - 2 * result.stats.avgLateness * n
        IN IF n = 0 THEN result.stats.avgLateness = 0
           ELSE (0 - n) <= d /\ d <= n

\* C20: vehiclesUsed is the number of distinct vehicles that have a route,
\* and avgUtilization is, to one decimal, totalWeight / totalCapacity * 100
\* with the maxCapacity of every used vehicle summed once (0 if that sum is
\* 0), also when one vehicle has several trip routes.
C20_StatsCountVehiclesOnce ==
    LET
        \* the vehicles that have a route, each once
        UsedVehicles(rs) == {rs[n].vehicle : n \in DOMAIN rs}
        RECURSIVE SumCapacity(_)
        SumCapacity(vs) ==
            IF vs = {} THEN 0
            ELSE LET v == CHOOSE x \in vs : TRUE
                 IN v.maxCapacity + SumCapacity(vs \ {v})
    IN
    pc = "reported" =>
        LET used == UsedVehicles(result.routes)
            cap == SumCapacity(used)
            weight == SeqSum([n \in DOMAIN result.routes |->
                                 result.routes[n].totalWeight])
            d == 2000 * weight - 2 * result.stats.avgUtilization * cap
        IN /\ result.stats.vehiclesUsed = Cardinality(used)
           /\ IF cap = 0 THEN result.stats.avgUtilization = 0
              ELSE (0 - cap) <= d /\ d <= cap

\* a window end that is absent, empty, or has no two integer parts
Malformed(w) ==
    \/ ~w.present
    \/ Len(w.parts) < 2
    \/ \E i \in DOMAIN w.parts : w.parts[i] = NaN

\* C21: a window end that is absent, empty or unparsable never makes
\* distance-first or time-first fail: time_to_minutes gives None for it, the
\* stop is on time with lateness 0 whatever its arrival time, and it adds
\* nothing to lateDeliveries or totalLateness, which count the other stops.
C21_MalformedWindowIsNoDeadline ==
    LET
        \* the late stops of one route, and the lateness of all its stops
        LateCount(r) == Cardinality({k \in DOMAIN r.orders : ~r.orders[k].onTime})
        StopLateness(r) == SeqSum([k \in DOMAIN r.orders |-> r.orders[k].lateness])
    IN
    alg \in {"df", "tf"} =>
        /\ pc # "raised"
        /\ \A k \in DOMAIN orders :
              Malformed(orders[k].windowEnd)
                 => time_to_minutes(WindowEndOr(orders[k], ClockStr(<<>>))) = NoMinutes
        /\ \A n \in DOMAIN AllRoutes :
              /\ \A k \in DOMAIN AllRoutes[n].orders :
                    Malformed(AllRoutes[n].orders[k].windowEnd)
                       => /\ AllRoutes[n].orders[k].onTime
                          /\ AllRoutes[n].orders[k].lateness = 0
              /\ AllRoutes[n].lateDeliveries = LateCount(AllRoutes[n])
              /\ AllRoutes[n].totalLateness = StopLateness(AllRoutes[n])

\* a route holds a stop with the window end '8', reached after 09:00, and a
\* late stop with the window end 08:30
C21_Witness ==
    /\ alg \in {"df", "tf"} /\ pc = "reported"
    /\ \E n \in DOMAIN result.routes :
          /\ \E k \in DOMAIN result.routes[n].orders :
                /\ result.routes[n].orders[k].windowEnd = ClockStr(<<8>>)
                /\ result.routes[n].orders[k].arrivalTime > 540
                /\ result.routes[n].orders[k].onTime
          /\ result.routes[n].lateDeliveries = 1

\* C22: for non-empty orders and vehicles of which neither algorithm can
\* assign an order, optimize_routes completes successfully and reports, for
\* each algorithm, zero routes and all orders unassigned.
C22_NothingFeasibleIsNoError ==
    (/\ pc = "responded" /\ orders # <<>> /\ vehicles # <<>>
     /\ loc.distance.assigned_count = 0 /\ assigned = {})
    => /\ result.status = 200
       /\ result.distanceFirst.routes = <<>>
       /\ result.distanceFirst.stats.unassignedOrders = Len(orders)
       /\ result.timeFirst.routes = <<>>
       /\ result.timeFirst.stats.unassignedOrders = Len(orders)

\* the order fits what the route's vehicle can still carry and is within
\* its range of the depot
FeasibleFor(o, r) ==
    /\ r.totalWeight + o.weight <= r.vehicle.maxCapacity
    /\ Lower(r.vehicle.type) = "bike" => DepotDist(o) <= 15
    /\ Lower(r.vehicle.type) = "van" => DepotDist(o) <= 50

\* C23: in every selection step of distance_first_algorithm the order
\* appended to the vehicle's route has the least score = distance from the
\* current position + 0.5 * priority rank among the unassigned orders
\* feasible for the vehicle, wherever they are in the input list.
C23_GreedyTakesLeastScore ==
    [][LET
        \* twice the score of an order seen from a position:
        \* distance + 0.5 * priority rank (express 0, urgent 1, standard 2)
        TwiceScore(o, p) ==
            2 * calculate_distance(p, o.pos)
            + (IF Lower(o.priority) = "express" THEN 0
               ELSE IF Lower(o.priority) = "urgent" THEN 1 ELSE 2)
    IN (/\ alg = "df" /\ pc = "run"
        /\ Len(loc'.route.orders) = Len(loc.route.orders) + 1)
       => LET taken == loc'.route.orders[Len(loc'.route.orders)]
          IN \A k \in DOMAIN orders :
                (orders[k].id \notin assigned /\ FeasibleFor(orders[k], loc.route))
                   => TwiceScore(taken, loc.route.currentPos)
                         <= TwiceScore(orders[k], loc.route.currentPos)]_vars

\* the window end of an order in minutes, NoMinutes if it has none
EndOf(o) ==
    IF Malformed(o.windowEnd) THEN NoMinutes
    ELSE o.windowEnd.parts[1] * 60 + o.windowEnd.parts[2]

\* C24: time_first_algorithm processes the orders by ascending window end,
\* and every order without a window end (key absent, empty or unparsable)
\* after every order that has one, for window ends from 00:00 to 23:59.
C24_EarliestDeadlineFirst ==
    alg = "tf" =>
        \A i, j \in DOMAIN loc.sorted_orders :
            i < j =>
                LET a == EndOf(loc.sorted_orders[i])
                    b == EndOf(loc.sorted_orders[j])
                IN /\ (a # NoMinutes /\ b # NoMinutes) => a <= b
                   /\ ~(a = NoMinutes /\ b # NoMinutes)

IsPrefix(s, t) == Len(s) <= Len(t) /\ \A i \in DOMAIN s : s[i] = t[i]

\* C25: time_first_algorithm considers each order once, in a single pass;
\* the order is appended to the first of the routes of least score =
\* (0 if on time, else lateness * 10) + distance from the route's current
\* position among the routes that satisfy capacity and range; it stays
\* unassigned only if no route satisfies them; a placed order is never moved.
C25_TimeFirstSinglePass ==
    /\ [](alg = "tf" =>
            /\ Len(loc.sorted_orders) = Len(orders)
            /\ \A k \in DOMAIN orders :
                  Cardinality({i \in DOMAIN loc.sorted_orders :
                                  loc.sorted_orders[i] = orders[k]}) = 1)
    /\ [][LET
        \* the score of a route for an order: 10 times the lateness if the arrival
        \* is more than 60 minutes after the window end, plus the distance from the
        \* route's current position
        RouteScore(r, o) ==
            LET dist == calculate_distance(r.currentPos, o.pos)
                arrival == r.currentTime + TravelMinutes(dist) + SERVICE_TIME_MINUTES
            IN (IF EndOf(o) # NoMinutes /\ arrival > EndOf(o) + 60
                THEN (arrival - EndOf(o)) * 10 ELSE 0) + dist
        \* the first of the routes feasible for the order that has the least score
        FirstLeast(rs, o) ==
            CHOOSE b \in DOMAIN rs :
                /\ FeasibleFor(o, rs[b])
                /\ \A n \in DOMAIN rs :
                      FeasibleFor(o, rs[n])
                         => \/ RouteScore(rs[b], o) < RouteScore(rs[n], o)
                            \/ RouteScore(rs[b], o) = RouteScore(rs[n], o) /\ b <= n
       IN (alg = "tf" /\ pc = "run" /\ loc.k <= Len(loc.sorted_orders))
          => LET o == loc.sorted_orders[loc.k]
                 fits == {n \in DOMAIN routes : FeasibleFor(o, routes[n])}
             IN /\ loc'.k = loc.k + 1
                /\ \A n \in DOMAIN routes : IsPrefix(routes[n].orders, routes'[n].orders)
                /\ fits = {} => (routes' = routes /\ assigned' = assigned)
                /\ fits # {} =>
                      LET b == FirstLeast(routes, o)
                      IN /\ Len(routes'[b].orders) = Len(routes[b].orders) + 1
                         /\ routes'[b].orders[Len(routes'[b].orders)].id = o.id
                         /\ \A n \in DOMAIN routes : n # b => routes'[n] = routes[n]
                         /\ assigned' = assigned \cup {o.id}]_vars

\* time_first has returned two routes and left an order unassigned
C25_Witness ==
    /\ alg = "tf" /\ pc = "done"
    /\ Len(result.routes) = 2
    /\ Len(orders) = 3
    /\ result.assigned_count = 2

\* C26: sweep_algorithm opens the vehicles one at a time in sort order
\* (electric first, then descending capacity) and never reopens one, each
\* vehicle gets at most one route, and the assigned orders are a prefix of
\* the list sorted by angle: after an order the exhausted fleet cannot take
\* no later order is assigned, and an earlier order is never on a later
\* vehicle than a later order.
C26_SweepAssignsPrefix ==
    /\ [](LET
        \* the identifiers of the stops of a list of routes, route after route
        RECURSIVE StopIds(_)
        StopIds(rs) ==
            IF rs = <<>> THEN <<>>
            ELSE [k \in DOMAIN rs[1].orders |-> rs[1].orders[k].id] \o StopIds(Tail(rs))
        \* where a vehicle is in the sorted fleet
        FleetIndex(sv, v) == CHOOSE i \in DOMAIN sv : sv[i].id = v.id
        \* electric first, then descending capacity
        FleetSorted(sv) ==
            \A i, j \in DOMAIN sv :
                i < j => /\ ~(Lower(sv[j].fuelType) = "electric"
                              /\ Lower(sv[i].fuelType) # "electric")
                         /\ (Lower(sv[i].fuelType) = "electric")
                               = (Lower(sv[j].fuelType) = "electric")
                            => sv[i].maxCapacity >= sv[j].maxCapacity
       IN alg = "sweep" =>
            /\ FleetSorted(loc.sorted_vehicles)
            /\ \A i, j \in DOMAIN loc.orders_with_angles :
                  i < j => Angle(loc.orders_with_angles[i])
                              <= Angle(loc.orders_with_angles[j])
            /\ \A n, m \in DOMAIN AllRoutes :
                  n < m => FleetIndex(loc.sorted_vehicles, AllRoutes[n].vehicle)
                              < FleetIndex(loc.sorted_vehicles, AllRoutes[m].vehicle)
            /\ \A n \in DOMAIN AllRoutes :
                  FleetIndex(loc.sorted_vehicles, AllRoutes[n].vehicle) <= loc.vehicle_idx
            /\ StopIds(AllRoutes)
                  = [k \in 1..Cardinality(assigned) |-> loc.orders_with_angles[k].id]
            /\ assigned = {loc.orders_with_angles[k].id : k \in 1..Cardinality(assigned)})
    /\ [][alg = "sweep" =>
            /\ loc'.vehicle_idx >= loc.vehicle_idx
            /\ pc' = "run" => IsPrefix(routes, routes')]_vars

\* the fleet of two is exhausted by the first two of three orders
C26_Witness ==
    /\ alg = "sweep" /\ pc = "done"
    /\ Len(orders) = 3 /\ Len(vehicles) = 2
    /\ Len(result.routes) = 2
    /\ result.assigned_count = 2
    /\ loc.orders_with_angles # orders

\* the ids of the orders on the routes rs
RoutedIds(rs) ==
    UNION {{rs[n].orders[k].id : k \in DOMAIN rs[n].orders} : n \in DOMAIN rs}

\* C27: in clarke_wright_savings_algorithm a savings pair whose two orders
\* are both routed changes nothing; the routes change only by one unrouted
\* order appended to one route or by one new route, opened on the
\* highest-capacity vehicle no route uses yet that fits its orders; no order
\* leaves its route or changes route, and no vehicle has two routes
C27_SavingsOnlyAppend ==
    /\ [](alg = "cw" =>
            /\ \A n, m \in DOMAIN routes :
                  n # m => routes[n].vehicle.id # routes[m].vehicle.id
            /\ \A k \in DOMAIN orders : StopCount(routes, orders[k].id) <= 1
            /\ RoutedIds(routes) = {orders[k].id : k \in assigned})
    /\ [][LET
        \* the route r is opened on a highest-capacity vehicle that no route of rs
        \* uses and that fits its orders: their weight within the capacity, and none
        \* beyond the range when the vehicle is a bike
        OpenedOnLargestFree(rs, r) ==
            LET Fits(v) ==
                    /\ \A n \in DOMAIN rs : rs[n].vehicle.id # v.id
                    /\ SumWeights(r.orders) <= v.maxCapacity
                    /\ ~(Lower(v.type) = "bike"
                         /\ \E k \in DOMAIN r.orders : DepotDist(r.orders[k]) > BIKE_RANGE_KM)
            IN /\ \E n \in DOMAIN vehicles : vehicles[n] = r.vehicle
               /\ Fits(r.vehicle)
               /\ \A n \in DOMAIN vehicles :
                      Fits(vehicles[n]) => vehicles[n].maxCapacity <= r.vehicle.maxCapacity
        \* routes grows into after by one order appended to one route
        GrowsByOne(before, after) ==
            /\ Len(after) = Len(before)
            /\ \E n \in DOMAIN before :
                  /\ \A m \in DOMAIN before : m # n => after[m] = before[m]
                  /\ after[n].vehicle = before[n].vehicle
                  /\ Len(after[n].orders) = Len(before[n].orders) + 1
                  /\ IsPrefix(before[n].orders, after[n].orders)
                  /\ after[n].orders[Len(after[n].orders)].id \notin RoutedIds(before)
        \* routes grows into after by one new route of orders not yet routed
        GrowsByRoute(before, after) ==
            /\ Len(after) = Len(before) + 1
            /\ IsPrefix(before, after)
            /\ LET r == after[Len(after)]
               IN /\ r.orders # <<>>
                  /\ \A k \in DOMAIN r.orders : r.orders[k].id \notin RoutedIds(before)
                  /\ \A k, l \in DOMAIN r.orders : k # l => r.orders[k].id # r.orders[l].id
                  /\ OpenedOnLargestFree(before, r)
       IN alg = "cw" =>
            /\ (/\ pc = "run" /\ loc.k <= Len(loc.savings)
                /\ orders[loc.savings[loc.k].i].id \in RoutedIds(routes)
                /\ orders[loc.savings[loc.k].j].id \in RoutedIds(routes))
               => routes' = routes /\ assigned' = assigned
            /\ pc' = "run" =>
                  \/ routes' = routes
                  \/ GrowsByOne(routes, routes')
                  \/ GrowsByRoute(routes, routes')
            /\ pc' # "run" =>
                  /\ Len(routes') = Len(routes)
                  /\ \A n \in DOMAIN routes :
                        /\ routes'[n].vehicle = routes[n].vehicle
                        /\ RoutedIds(<<routes'[n]>>) = RoutedIds(<<routes[n]>>)
                        /\ Len(routes'[n].orders) = Len(routes[n].orders)]_vars

\* a run over a fleet listing its smaller vehicle first: the first pair opened
\* a route on the larger one, the third order was appended to it, and the
\* last pair, of two routed orders, was skipped
C27_Witness ==
    /\ alg = "cw" /\ pc = "done"
    /\ Len(orders) = 3 /\ Len(vehicles) = 2
    /\ vehicles[1].maxCapacity < vehicles[2].maxCapacity
    /\ Len(result.routes) = 1
    /\ result.routes[1].vehicle.id = vehicles[2].id
    /\ Len(result.routes[1].orders) = 3

C29_GeneticBestOverEveryPopulation ==
    /\ []((alg = "ga" /\ loc.has_best) =>
            /\ loc.best_fitness = evaluate_fitness(loc.best_solution, orders, vehicles)
            /\ loc.phase = "breed" =>
                  \A n \in DOMAIN loc.population :
                     evaluate_fitness(loc.population[n], orders, vehicles) <= loc.best_fitness
            /\ pc = "done" =>
                  /\ \A n \in DOMAIN loc.population :
                        evaluate_fitness(loc.population[n], orders, vehicles)
                           <= loc.best_fitness
                  /\ result.routes = GARoutes(loc.best_solution))
    /\ [][(alg = "ga" /\ loc.has_best) =>
            /\ loc'.best_fitness >= loc.best_fitness
            /\ loc.phase = "breed" => loc'.best_solution = loc.best_solution]_vars

\* C30: distance_first_algorithm and time_first_algorithm leave their inputs
\* unchanged: no step changes the orders list or the vehicles list, every
\* input order keeps exactly its own fields, and the arrival time, on-time
\* flag and lateness are carried only by the stops of the routes, which are
\* copies of input orders
C30_InputsUnchanged ==
    /\ [](LET
        OrderFields == {"id", "pos", "weight", "priority", "windowEnd"}
        TimeFields == {"arrivalTime", "onTime", "lateness"}
        \* the stop is a copy of an input order with the three time fields attached
        CopyOfInput(stop) ==
            /\ DOMAIN stop = OrderFields \cup TimeFields
            /\ \E n \in DOMAIN orders : \A f \in OrderFields : stop[f] = orders[n][f]
       IN alg \in {"df", "tf"} =>
            /\ \A n \in DOMAIN orders : DOMAIN orders[n] = OrderFields
            /\ \A n \in DOMAIN vehicles :
                  DOMAIN vehicles[n] = {"id", "type", "maxCapacity", "fuelType"}
            /\ \A n \in DOMAIN AllRoutes : \A k \in DOMAIN AllRoutes[n].orders :
                  CopyOfInput(AllRoutes[n].orders[k])
            /\ \A n \in DOMAIN AllRoutes :
                  \E m \in DOMAIN vehicles : AllRoutes[n].vehicle = vehicles[m])
    /\ [][(alg \in {"df", "tf"}) => (orders' = orders /\ vehicles' = vehicles)]_vars

\* a finished run that delivered two orders, one of them late
C30_Witness ==
    /\ alg \in {"df", "tf"} /\ pc = "done"
    /\ result.assigned_count >= 2
    /\ \E n \in DOMAIN result.routes : \E k \in DOMAIN result.routes[n].orders :
          ~result.routes[n].orders[k].onTime

====
